---------------------------- MODULE Spec2Model ----------------------------
(***************************************************************************)
(* Model of the calculation engines of swyft-loan-calc:                    *)
(*   - calculateLoanRepayments / generateAmortizationSchedule              *)
(*     (loan-calculator-logic.js, src/unnamed/part_000 lines 1-115)        *)
(*   - the income-tax computation and tax breakdown of                     *)
(*     IncomeTaxCalculator.tsx                                             *)
(*   - the income annualisation of IncomeAnnualisationCalculator           *)
(*     (src/unnamed/part_002)                                              *)
(*   - the forms of LoanCalculator.tsx and MortgageCalculator.tsx, with    *)
(*     their own copies of the loan calculation                            *)
(*                                                                         *)
(* Numbers.  The program computes with JavaScript numbers.  The model      *)
(* computes with exact rationals [num, den] (den > 0, lowest terms), so    *)
(* every equality below is an equality of real numbers: IEEE-754 rounding  *)
(* is abstracted away, the control flow (comparisons, loop bounds, strict  *)
(* equality tests) is kept.  Math.pow is modelled exactly on the inputs    *)
(* the specifications draw: exponents are whole or half numbers and        *)
(* 1 + periodicRate is the square of a rational.                           *)
(***************************************************************************)
EXTENDS Integers, Sequences, FiniteSets, TLC

VARIABLES
    \* loan-calculator-logic.js, driven as its tests drive it
    inputs,              \* the LoanParameters record handed to the engine
    calculationResults,  \* what calculateLoanRepayments returned (or Null)
    schedule,            \* what generateAmortizationSchedule returned
    pc,                  \* "start" | "calculated" | "scheduled"
    \* IncomeTaxCalculator.tsx, the component's React state
    taxInputs,           \* inputs: [income, incomeFrequency]
    taxTouchedFields,    \* touchedFields: [income]
    taxErrors,           \* errors: the fields in error, with their messages
    taxIsFormValid,      \* isFormValid
    taxEffectPending,    \* the validation effect is due ([inputs, touchedFields] changed)
    \* IncomeAnnualisationCalculator (part_002), the component's React state
    annInputs,           \* inputs: [ytdIncome, paysReceived, payFrequency]
    annTouchedFields,    \* touchedFields: [ytdIncome, paysReceived]
    annErrors,           \* errors: the fields in error, with their messages
    annIsFormValid,      \* isFormValid
    annEffectPending,    \* the validation effect is due ([inputs, touchedFields] changed)
    \* LoanCalculator.tsx, the component's React state
    lcInputs,            \* inputs: [loanAmount, interestRate, loanTerm,
                         \*          repaymentFrequency, hasResidualPayment, residualPayment]
    lcTouchedFields,     \* touchedFields: [loanAmount, interestRate, loanTerm, residualPayment]
    lcErrors,            \* errors
    lcIsFormValid,       \* isFormValid
    lcEffectPending,     \* the validation effect is due
    \* MortgageCalculator.tsx, the component's React state
    mcInputs,            \* inputs: [loanAmount, interestRate, loanTerm,
                         \*          hasResidualPayment, residualPayment]
    mcTouchedFields,     \* touchedFields: [loanAmount, interestRate, loanTerm, residualPayment]
    mcErrors,            \* errors
    mcIsFormValid,       \* isFormValid
    mcEffectPending      \* the validation effect is due

loanVars == <<inputs, calculationResults, schedule, pc>>

taxVars == <<taxInputs, taxTouchedFields, taxErrors, taxIsFormValid, taxEffectPending>>

annVars == <<annInputs, annTouchedFields, annErrors, annIsFormValid, annEffectPending>>

lcVars == <<lcInputs, lcTouchedFields, lcErrors, lcIsFormValid, lcEffectPending>>

mcVars == <<mcInputs, mcTouchedFields, mcErrors, mcIsFormValid, mcEffectPending>>

vars == <<inputs, calculationResults, schedule, pc, taxInputs, taxTouchedFields, taxErrors, taxIsFormValid, taxEffectPending, annInputs, annTouchedFields, annErrors, annIsFormValid, annEffectPending, lcInputs, lcTouchedFields, lcErrors, lcIsFormValid, lcEffectPending, mcInputs, mcTouchedFields, mcErrors, mcIsFormValid, mcEffectPending>>

---------------------------------------------------------------------------
(* Exact rational arithmetic (the JavaScript number operators).            *)

Abs(a) == IF a < 0 THEN -a ELSE a

RECURSIVE GCD(_, _)
GCD(a, b) == IF b = 0 THEN a ELSE GCD(b, a % b)

\* The rational n/d (d # 0) in lowest terms with a positive denominator.
Rat(n, d) ==
    LET g == GCD(Abs(n), Abs(d))
        s == IF d < 0 THEN -1 ELSE 1
    IN  [num |-> s * (n \div g), den |-> s * (d \div g)]

Whole(n) == [num |-> n, den |-> 1]

Zero == Whole(0)

One == Whole(1)

RNeg(x) == [num |-> -(x.num), den |-> x.den]

RAdd(x, y) ==
    LET g == GCD(x.den, y.den)
    IN  Rat(x.num * (y.den \div g) + y.num * (x.den \div g),
            (x.den \div g) * y.den)

RSub(x, y) == RAdd(x, RNeg(y))

RMul(x, y) ==
    LET g1 == GCD(Abs(x.num), y.den)
        g2 == GCD(Abs(y.num), x.den)
    IN  IF x.num = 0 \/ y.num = 0 THEN Zero
        ELSE [num |-> (x.num \div g1) * (y.num \div g2),
              den |-> (x.den \div g2) * (y.den \div g1)]

\* x / y for y # 0 (every division of the engines has a non-zero divisor
\* on the paths that reach it).
RDiv(x, y) ==
    RMul(x, IF y.num < 0 THEN [num |-> -(y.den), den |-> -(y.num)]
            ELSE [num |-> y.den, den |-> y.num])

\* The sign of x - y, compared after removing the common factors.
RLt(x, y) == RSub(x, y).num < 0

RLe(x, y) == RSub(x, y).num <= 0

RMax(x, y) == IF RLt(x, y) THEN y ELSE x

RMin(x, y) == IF RLt(y, x) THEN y ELSE x

RIsWhole(x) == x.den = 1

RECURSIVE IPow(_, _)
IPow(b, e) == IF e = 0 THEN 1 ELSE b * IPow(b, e - 1)

\* The integer square root of a perfect square.
ISqrt(a) == CHOOSE s \in 0..a : s * s = a

\* Math.pow(base, exponent) for base > 0 and an exponent k or k/2 (k >= 0);
\* for k/2 the base is the square of a rational.
Pow(base, exponent) ==
    IF exponent.den = 1
    THEN [num |-> IPow(base.num, exponent.num),
          den |-> IPow(base.den, exponent.num)]
    ELSE [num |-> IPow(ISqrt(base.num), exponent.num),
          den |-> IPow(ISqrt(base.den), exponent.num)]

---------------------------------------------------------------------------
(* loan-calculator-logic.js                                                *)

\* The absent result (JavaScript null).
Null == [isNull |-> TRUE]

PeriodsPerYear(repaymentFrequency) ==
    IF repaymentFrequency = "weekly" THEN 52
    ELSE IF repaymentFrequency = "fortnightly" THEN 26
    ELSE 12

PeriodicRate(interestRate, periodsPerYear) ==
    RDiv(RDiv(interestRate, Whole(100)), Whole(periodsPerYear))

ActualResidual(in) ==
    IF in.hasResidualPayment THEN in.residualPayment ELSE Zero

\* Mutant: the residual is added to the amount to amortize.
PrincipalToAmortize_AddsResidual(in) == RAdd(in.loanAmount, ActualResidual(in))

\* Mutant: the residual is not taken off the amount to amortize.
PrincipalToAmortize_IgnoresResidual(in) == in.loanAmount

PrincipalToAmortize(in) == RSub(in.loanAmount, ActualResidual(in))

\* Mutant: "loanAmount < 0" for "loanAmount <= 0".
BasicValidationFails_AcceptsZero(in) ==
    \/ RLt(in.loanAmount, Zero)
    \/ RLt(in.interestRate, Zero)
    \/ RLe(in.loanTerm, Zero)

\* The guard of calculateLoanRepayments.
BasicValidationFails(in) ==
    \/ RLe(in.loanAmount, Zero)
    \/ RLt(in.interestRate, Zero)
    \/ RLe(in.loanTerm, Zero)

\* Mutant: the amount is spread over the periods of one year.
ZeroRateResult_PerYear(principalToAmortize, actualResidual, periodsPerYear, totalPeriods) ==
    [repaymentPerPeriod |-> RDiv(principalToAmortize, Whole(periodsPerYear)),
     totalAmountPayable |-> RAdd(principalToAmortize, actualResidual),
     totalInterest      |-> Zero,
     periodsPerYear     |-> periodsPerYear,
     totalPeriods       |-> totalPeriods]

\* The branch taken when periodicRate === 0.
ZeroRateResult(principalToAmortize, actualResidual, periodsPerYear, totalPeriods) ==
    [repaymentPerPeriod |-> RDiv(principalToAmortize, totalPeriods),
     totalAmountPayable |-> RAdd(principalToAmortize, actualResidual),
     totalInterest      |-> Zero,
     periodsPerYear     |-> periodsPerYear,
     totalPeriods       |-> totalPeriods]

\* Mutant: the power term is missing from the numerator.
Pmt_NoPowerInNumerator(principalToAmortize, periodicRate, totalPeriods) ==
    LET powerTerm == Pow(RAdd(One, periodicRate), totalPeriods)
    IN  RDiv(RMul(principalToAmortize, periodicRate), RSub(powerTerm, One))

\* PMT = [P * r * (1 + r)^n] / [(1 + r)^n - 1]
Pmt(principalToAmortize, periodicRate, totalPeriods) ==
    LET powerTerm == Pow(RAdd(One, periodicRate), totalPeriods)
    IN  RDiv(RMul(RMul(principalToAmortize, periodicRate), powerTerm),
             RSub(powerTerm, One))

\* Mutant: the interest is taken against the amortized part of the loan.
PmtResult_InterestOnAmortized(loanAmount, principalToAmortize, actualResidual, periodicRate, periodsPerYear, totalPeriods) ==
    LET repaymentPerPeriod == Pmt(principalToAmortize, periodicRate, totalPeriods)
        totalAmountPayable ==
            RAdd(RMul(repaymentPerPeriod, totalPeriods), actualResidual)
    IN  [repaymentPerPeriod |-> repaymentPerPeriod,
         totalAmountPayable |-> totalAmountPayable,
         totalInterest      |-> RSub(totalAmountPayable, principalToAmortize),
         periodsPerYear     |-> periodsPerYear,
         totalPeriods       |-> totalPeriods]

\* The branch taken when periodicRate # 0.
PmtResult(loanAmount, principalToAmortize, actualResidual, periodicRate, periodsPerYear, totalPeriods) ==
    LET repaymentPerPeriod == Pmt(principalToAmortize, periodicRate, totalPeriods)
        totalAmountPayable ==
            RAdd(RMul(repaymentPerPeriod, totalPeriods), actualResidual)
    IN  [repaymentPerPeriod |-> repaymentPerPeriod,
         totalAmountPayable |-> totalAmountPayable,
         totalInterest      |-> RSub(totalAmountPayable, loanAmount),
         periodsPerYear     |-> periodsPerYear,
         totalPeriods       |-> totalPeriods]

calculateLoanRepayments(in) ==
    IF BasicValidationFails(in) THEN Null
    ELSE
      LET periodsPerYear == PeriodsPerYear(in.repaymentFrequency)
          periodicRate == PeriodicRate(in.interestRate, periodsPerYear)
          totalPeriods == RMul(in.loanTerm, Whole(periodsPerYear))
          actualResidual == ActualResidual(in)
          principalToAmortize == PrincipalToAmortize(in)
      IN  IF periodicRate = Zero
          THEN ZeroRateResult(principalToAmortize, actualResidual,
                              periodsPerYear, totalPeriods)
          ELSE PmtResult(in.loanAmount, principalToAmortize, actualResidual,
                         periodicRate, periodsPerYear, totalPeriods)

\* Mutant: the final entry reports the balance before the payment.
FinalEntry_KeepsBalance(paymentNumber, remainingBalance, interestAmount) ==
    [paymentNumber    |-> Whole(paymentNumber),
     paymentAmount    |-> RAdd(remainingBalance, interestAmount),
     principalAmount  |-> remainingBalance,
     interestAmount   |-> interestAmount,
     remainingBalance |-> remainingBalance]

\* Mutant: the final payment leaves the interest out.
FinalEntry_PaymentIsBalance(paymentNumber, remainingBalance, interestAmount) ==
    [paymentNumber    |-> Whole(paymentNumber),
     paymentAmount    |-> remainingBalance,
     principalAmount  |-> remainingBalance,
     interestAmount   |-> interestAmount,
     remainingBalance |-> Zero]

\* The entry pushed when paymentNumber === totalPeriods.
FinalEntry(paymentNumber, remainingBalance, interestAmount) ==
    [paymentNumber    |-> Whole(paymentNumber),
     paymentAmount    |-> RAdd(remainingBalance, interestAmount),
     principalAmount  |-> remainingBalance,
     interestAmount   |-> interestAmount,
     remainingBalance |-> Zero]

\* The entry pushed for every other period; newBalance is the balance after
\* "remainingBalance -= principalAmount".
RegularEntry(paymentNumber, repaymentPerPeriod, principalAmount, interestAmount, newBalance) ==
    [paymentNumber    |-> Whole(paymentNumber),
     paymentAmount    |-> repaymentPerPeriod,
     principalAmount  |-> principalAmount,
     interestAmount   |-> interestAmount,
     remainingBalance |-> RMax(Zero, newBalance)]

\* Mutant: the balloon entry takes the number of the last regular entry.
BalloonEntry_NumberedAsLast(totalPeriods, residualPayment) ==
    [paymentNumber    |-> totalPeriods,
     paymentAmount    |-> residualPayment,
     principalAmount  |-> residualPayment,
     interestAmount   |-> Zero,
     remainingBalance |-> Zero]

\* The entry appended when hasResidualPayment && residualPayment > 0.
BalloonEntry(totalPeriods, residualPayment) ==
    [paymentNumber    |-> RAdd(totalPeriods, One),
     paymentAmount    |-> residualPayment,
     principalAmount  |-> residualPayment,
     interestAmount   |-> Zero,
     remainingBalance |-> Zero]

\* The for loop of generateAmortizationSchedule from paymentNumber on.
RECURSIVE ScheduleLoop(_, _, _, _, _, _)
ScheduleLoop(paymentNumber, remainingBalance, sched, repaymentPerPeriod, periodicRate, totalPeriods) ==
    IF ~RLe(Whole(paymentNumber), totalPeriods) THEN sched
    ELSE
      LET interestAmount == RMul(remainingBalance, periodicRate)
          principalAmount == RSub(repaymentPerPeriod, interestAmount)
      IN  IF Whole(paymentNumber) = totalPeriods
          THEN ScheduleLoop(paymentNumber + 1, remainingBalance,
                   Append(sched, FinalEntry(paymentNumber, remainingBalance,
                                            interestAmount)),
                   repaymentPerPeriod, periodicRate, totalPeriods)
          ELSE ScheduleLoop(paymentNumber + 1,
                   RSub(remainingBalance, principalAmount),
                   Append(sched, RegularEntry(paymentNumber, repaymentPerPeriod,
                              principalAmount, interestAmount,
                              RSub(remainingBalance, principalAmount))),
                   repaymentPerPeriod, periodicRate, totalPeriods)

\* Mutant: the balloon entry is appended whether or not the residual is enabled.
HasBalloon_IgnoresFlag(in) == RLt(Zero, in.residualPayment)

\* The condition of the balloon entry.
HasBalloon(in) == in.hasResidualPayment /\ RLt(Zero, in.residualPayment)

generateAmortizationSchedule(in, results) ==
    IF results = Null THEN << >>
    ELSE
      LET periodicRate == PeriodicRate(in.interestRate, results.periodsPerYear)
          regular == ScheduleLoop(1, PrincipalToAmortize(in), << >>,
                         results.repaymentPerPeriod, periodicRate,
                         results.totalPeriods)
      IN  IF HasBalloon(in)
          THEN Append(regular, BalloonEntry(results.totalPeriods,
                                            in.residualPayment))
          ELSE regular

---------------------------------------------------------------------------
(* IncomeTaxCalculator.tsx                                                 *)

\* A table whose baseTax of the third bracket was accumulated at 19% on the
\* second bracket instead of its 16%.
taxBrackets_BaseTaxAtOtherRate ==
    << [min |-> Whole(0),      max |-> Whole(18200),  rate |-> Zero,         baseTax |-> Whole(0)],
       [min |-> Whole(18201),  max |-> Whole(45000),  rate |-> Rat(16, 100), baseTax |-> Whole(0)],
       [min |-> Whole(45001),  max |-> Whole(135000), rate |-> Rat(30, 100), baseTax |-> Whole(5092)],
       [min |-> Whole(135001), max |-> Whole(190000), rate |-> Rat(37, 100), baseTax |-> Whole(31288)],
       [min |-> Whole(190001), max |-> Null,          rate |-> Rat(45, 100), baseTax |-> Whole(51638)] >>

\* 2024-25 tax brackets; max = Null is the open last bracket.
taxBrackets ==
    << [min |-> Whole(0),      max |-> Whole(18200),  rate |-> Zero,         baseTax |-> Whole(0)],
       [min |-> Whole(18201),  max |-> Whole(45000),  rate |-> Rat(16, 100), baseTax |-> Whole(0)],
       [min |-> Whole(45001),  max |-> Whole(135000), rate |-> Rat(30, 100), baseTax |-> Whole(4288)],
       [min |-> Whole(135001), max |-> Whole(190000), rate |-> Rat(37, 100), baseTax |-> Whole(31288)],
       [min |-> Whole(190001), max |-> Null,          rate |-> Rat(45, 100), baseTax |-> Whole(51638)] >>

medicareSurchargeThresholds ==
    << [min |-> Whole(0),      max |-> Whole(97000),  rate |-> Zero],
       [min |-> Whole(97001),  max |-> Whole(113000), rate |-> Rat(1, 100)],
       [min |-> Whole(113001), max |-> Whole(151000), rate |-> Rat(125, 10000)],
       [min |-> Whole(151001), max |-> Null,          rate |-> Rat(15, 1000)] >>

\* The error map validateInputs returns; the later assignment to
\* newErrors.income overwrites the earlier one.
NoErrors == [field \in {} |-> ""]

validateInputs(currentInputs, touched) ==
    IF touched.income /\ RLt(Whole(10000000), currentInputs.income)
    THEN [field \in {"income"} |-> "Income must be less than $10,000,000"]
    ELSE IF touched.income /\ RLe(currentInputs.income, Zero)
    THEN [field \in {"income"} |-> "Income must be greater than 0"]
    ELSE NoErrors

\* Mutant: the segments are not floored at 0.
calculateLITO_NoFloor(taxableIncome) ==
    IF RLe(taxableIncome, Whole(37500)) THEN Whole(700)
    ELSE IF RLe(taxableIncome, Whole(45000))
    THEN RSub(Whole(700), RMul(RSub(taxableIncome, Whole(37500)), Rat(5, 100)))
    ELSE IF RLe(taxableIncome, Whole(66667))
    THEN RSub(Whole(325), RMul(RSub(taxableIncome, Whole(45000)), Rat(15, 1000)))
    ELSE Zero

calculateLITO(taxableIncome) ==
    IF RLe(taxableIncome, Whole(37500)) THEN Whole(700)
    ELSE IF RLe(taxableIncome, Whole(45000))
    THEN RMax(Zero, RSub(Whole(700),
                         RMul(RSub(taxableIncome, Whole(37500)), Rat(5, 100))))
    ELSE IF RLe(taxableIncome, Whole(66667))
    THEN RMax(Zero, RSub(Whole(325),
                         RMul(RSub(taxableIncome, Whole(45000)), Rat(15, 1000))))
    ELSE Zero

\* Mutant: the phase-in takes the larger of the two amounts.
calculateMedicareLevy_LargerAmount(taxableIncome) ==
    LET medicareThreshold == Whole(27222)
        medicareUpperThreshold == Whole(34027)
        medicareRate == Rat(2, 100)
    IN  IF RLe(taxableIncome, medicareThreshold) THEN Zero
        ELSE IF RLe(taxableIncome, medicareUpperThreshold)
        THEN RMax(RMul(RSub(taxableIncome, medicareThreshold), Rat(1, 10)),
                  RMul(taxableIncome, medicareRate))
        ELSE RMul(taxableIncome, medicareRate)

calculateMedicareLevy(taxableIncome) ==
    LET medicareThreshold == Whole(27222)
        medicareUpperThreshold == Whole(34027)
        medicareRate == Rat(2, 100)
    IN  IF RLe(taxableIncome, medicareThreshold) THEN Zero
        ELSE IF RLe(taxableIncome, medicareUpperThreshold)
        THEN RMin(RMul(RSub(taxableIncome, medicareThreshold), Rat(1, 10)),
                  RMul(taxableIncome, medicareRate))
        ELSE RMul(taxableIncome, medicareRate)

\* "for (const bracket of table) if (x >= min && (max === null || x <= max))":
\* the index of the first bracket holding x, 0 when the loop falls through.
RECURSIVE FirstBracket(_, _, _)
FirstBracket(table, x, i) ==
    IF i > Len(table) THEN 0
    ELSE IF RLe(table[i].min, x) /\ (table[i].max = Null \/ RLe(x, table[i].max))
    THEN i
    ELSE FirstBracket(table, x, i + 1)

calculateMedicareLevySurcharge(taxableIncome) ==
    LET i == FirstBracket(medicareSurchargeThresholds, taxableIncome, 1)
    IN  IF i = 0 THEN Zero
        ELSE RMul(taxableIncome, medicareSurchargeThresholds[i].rate)

\* Mutant: the 16% bracket is taken to be 45,000 wide.
BracketTax_WideSecondBracket(taxableIncome) ==
    LET at16 == IF RLt(Whole(18200), taxableIncome)
                THEN RMul(RMin(RSub(taxableIncome, Whole(18200)), Whole(45000)),
                          Rat(16, 100))
                ELSE Zero
        at30 == IF RLt(Whole(45000), taxableIncome)
                THEN RMul(RMin(RSub(taxableIncome, Whole(45000)), Whole(135000 - 45000)),
                          Rat(30, 100))
                ELSE Zero
        at37 == IF RLt(Whole(135000), taxableIncome)
                THEN RMul(RMin(RSub(taxableIncome, Whole(135000)), Whole(190000 - 135000)),
                          Rat(37, 100))
                ELSE Zero
        at45 == IF RLt(Whole(190000), taxableIncome)
                THEN RMul(RSub(taxableIncome, Whole(190000)), Rat(45, 100))
                ELSE Zero
    IN  RAdd(RAdd(RAdd(at16, at30), at37), at45)

\* The tax accumulated through the brackets, before the offset.
BracketTax(taxableIncome) ==
    LET at16 == IF RLt(Whole(18200), taxableIncome)
                THEN RMul(RMin(RSub(taxableIncome, Whole(18200)), Whole(45000 - 18200)),
                          Rat(16, 100))
                ELSE Zero
        at30 == IF RLt(Whole(45000), taxableIncome)
                THEN RMul(RMin(RSub(taxableIncome, Whole(45000)), Whole(135000 - 45000)),
                          Rat(30, 100))
                ELSE Zero
        at37 == IF RLt(Whole(135000), taxableIncome)
                THEN RMul(RMin(RSub(taxableIncome, Whole(135000)), Whole(190000 - 135000)),
                          Rat(37, 100))
                ELSE Zero
        at45 == IF RLt(Whole(190000), taxableIncome)
                THEN RMul(RSub(taxableIncome, Whole(190000)), Rat(45, 100))
                ELSE Zero
    IN  RAdd(RAdd(RAdd(at16, at30), at37), at45)

calculateIncomeTax(taxableIncome) ==
    RMax(Zero, RSub(BracketTax(taxableIncome), calculateLITO(taxableIncome)))

getMarginalTaxRate(taxableIncome) ==
    LET i == FirstBracket(taxBrackets, taxableIncome, 1)
    IN  IF i = 0 THEN Zero ELSE taxBrackets[i].rate

\* Mutant: a weekly income is annualised by the fortnightly multiplier.
getAnnualIncome_WeeklyTimes26(income, frequency) ==
    IF frequency = "weekly" THEN RMul(income, Whole(26))
    ELSE IF frequency = "monthly" THEN RMul(income, Whole(12))
    ELSE income

getAnnualIncome(income, frequency) ==
    IF frequency = "weekly" THEN RMul(income, Whole(52))
    ELSE IF frequency = "monthly" THEN RMul(income, Whole(12))
    ELSE income

getFrequencyAmount(annualAmount, frequency) ==
    IF frequency = "weekly" THEN RDiv(annualAmount, Whole(52))
    ELSE IF frequency = "monthly" THEN RDiv(annualAmount, Whole(12))
    ELSE annualAmount

\* Mutant: the effective rate is kept as a fraction.
EffectiveTaxRate_AsFraction(totalTax, grossIncome) ==
    IF RLt(Zero, grossIncome) THEN RDiv(totalTax, grossIncome) ELSE Zero

\* "grossIncome > 0 ? (totalTax / grossIncome) * 100 : 0"
EffectiveTaxRate(totalTax, grossIncome) ==
    IF RLt(Zero, grossIncome)
    THEN RMul(RDiv(totalTax, grossIncome), Whole(100))
    ELSE Zero

\* The calculateTax memo for a given state of the component.
CalculateTaxOf(in, isFormValid) ==
    IF ~isFormValid THEN Null
    ELSE
      LET grossIncome == getAnnualIncome(in.income, in.incomeFrequency)
          taxableIncome == grossIncome
          incomeTax == calculateIncomeTax(taxableIncome)
          medicareLevy == calculateMedicareLevy(taxableIncome)
          medicareLevySurcharge == calculateMedicareLevySurcharge(taxableIncome)
          totalTax == RAdd(RAdd(incomeTax, medicareLevy), medicareLevySurcharge)
      IN  [grossIncome           |-> grossIncome,
           taxableIncome         |-> taxableIncome,
           incomeTax             |-> incomeTax,
           medicareLevy          |-> medicareLevy,
           medicareLevySurcharge |-> medicareLevySurcharge,
           totalTax              |-> totalTax,
           netIncome             |-> RSub(grossIncome, totalTax),
           effectiveTaxRate      |-> EffectiveTaxRate(totalTax, grossIncome),
           marginalTaxRate       |-> RMul(getMarginalTaxRate(taxableIncome), Whole(100))]

BreakdownLine(range, rate, taxableAmount, taxAmount, isOffset) ==
    [range |-> range, rate |-> rate, taxableAmount |-> taxableAmount,
     taxAmount |-> taxAmount, isOffset |-> isOffset]

\* One bracket line of the breakdown: pushed when grossIncome > floor, for
\* the part of the income between floor and floor + width.
BracketLine(grossIncome, floor, width, rate, range, label) ==
    IF RLt(Whole(floor), grossIncome)
    THEN << BreakdownLine(range, label,
                RMin(RSub(grossIncome, Whole(floor)), Whole(width)),
                RMul(RMin(RSub(grossIncome, Whole(floor)), Whole(width)), rate),
                FALSE) >>
    ELSE << >>

\* The last bracket line: no upper limit.
TopBracketLine(grossIncome) ==
    IF RLt(Whole(190000), grossIncome)
    THEN << BreakdownLine("$190,001+", "45.0%",
                RSub(grossIncome, Whole(190000)),
                RMul(RSub(grossIncome, Whole(190000)), Rat(45, 100)), FALSE) >>
    ELSE << >>

\* The tax-free line: pushed when grossIncome > 0, with taxAmount 0.
TaxFreeLine(grossIncome) ==
    IF RLt(Zero, grossIncome)
    THEN << BreakdownLine("$0 - $18,200", "0.0%",
                RMin(grossIncome, Whole(18200)), Zero, FALSE) >>
    ELSE << >>

\* The offset line: pushed when calculateLITO(grossIncome) > 0.
LitoLine(grossIncome) ==
    IF RLt(Zero, calculateLITO(grossIncome))
    THEN << BreakdownLine("Low Income Tax Offset", "Offset", grossIncome,
                RNeg(calculateLITO(grossIncome)), TRUE) >>
    ELSE << >>

\* The taxBreakdown memo for a given state of the component.
TaxBreakdownOf(in, isFormValid) ==
    IF CalculateTaxOf(in, isFormValid) = Null \/ ~isFormValid THEN << >>
    ELSE
      LET grossIncome == CalculateTaxOf(in, isFormValid).grossIncome
      IN  TaxFreeLine(grossIncome)
            \o BracketLine(grossIncome, 18200, 45000 - 18200, Rat(16, 100),
                           "$18,201 - $45,000", "16.0%")
            \o BracketLine(grossIncome, 45000, 135000 - 45000, Rat(30, 100),
                           "$45,001 - $135,000", "30.0%")
            \o BracketLine(grossIncome, 135000, 190000 - 135000, Rat(37, 100),
                           "$135,001 - $190,000", "37.0%")
            \o TopBracketLine(grossIncome)
            \o LitoLine(grossIncome)

\* What the component renders in the current state.
calculateTax == CalculateTaxOf(taxInputs, taxIsFormValid)

taxBreakdown == TaxBreakdownOf(taxInputs, taxIsFormValid)

\* "Total Income Tax": taxBreakdown.reduce((sum, bracket) => sum + bracket.taxAmount, 0)
RECURSIVE SumTaxAmount(_)
SumTaxAmount(lines) ==
    IF lines = << >> THEN Zero
    ELSE RAdd(Head(lines).taxAmount, SumTaxAmount(Tail(lines)))

---------------------------------------------------------------------------
(* IncomeAnnualisationCalculator (src/unnamed/part_002)                    *)

\* Mutant: a fortnightly year is taken to have 24 pays.
payFrequencyConfig_Fortnightly24(frequency) ==
    CASE frequency = "weekly" -> 52
      [] frequency = "fortnightly" -> 24
      [] frequency = "monthly" -> 12
      [] frequency = "quarterly" -> 4

\* payFrequencyConfig[frequency].periodsPerYear
payFrequencyConfig(frequency) ==
    CASE frequency = "weekly" -> 52
      [] frequency = "fortnightly" -> 26
      [] frequency = "monthly" -> 12
      [] frequency = "quarterly" -> 4

\* `Cannot exceed ${maxPaysForFrequency} pays for ${label.toLowerCase()} frequency`
CannotExceedMessage(frequency) ==
    CASE frequency = "weekly" -> "Cannot exceed 52 pays for weekly frequency"
      [] frequency = "fortnightly" -> "Cannot exceed 26 pays for fortnightly frequency"
      [] frequency = "monthly" -> "Cannot exceed 12 pays for monthly frequency"
      [] frequency = "quarterly" -> "Cannot exceed 4 pays for quarterly frequency"

\* Mutant: the pays received are not checked against the pays of a year.
validateAnnualisationInputs_NoMaximum(currentInputs, touched) ==
    LET ytdInError == touched.ytdIncome /\ RLe(currentInputs.ytdIncome, Zero)
        paysTooFew == touched.paysReceived /\ RLe(currentInputs.paysReceived, Zero)
    IN  [field \in (IF ytdInError THEN {"ytdIncome"} ELSE {})
                     \cup (IF paysTooFew THEN {"paysReceived"} ELSE {}) |->
            IF field = "ytdIncome" THEN "YTD income must be greater than 0"
            ELSE "Pay periods received must be greater than 0"]

\* validateInputs of the annualisation component: the error map it returns.
validateAnnualisationInputs(currentInputs, touched) ==
    LET maxPaysForFrequency == Whole(payFrequencyConfig(currentInputs.payFrequency))
        ytdInError == touched.ytdIncome /\ RLe(currentInputs.ytdIncome, Zero)
        paysTooFew == touched.paysReceived /\ RLe(currentInputs.paysReceived, Zero)
        paysTooMany == touched.paysReceived
                         /\ RLt(maxPaysForFrequency, currentInputs.paysReceived)
    IN  [field \in (IF ytdInError THEN {"ytdIncome"} ELSE {})
                     \cup (IF paysTooFew \/ paysTooMany THEN {"paysReceived"} ELSE {}) |->
            IF field = "ytdIncome" THEN "YTD income must be greater than 0"
            ELSE IF paysTooMany THEN CannotExceedMessage(currentInputs.payFrequency)
            ELSE "Pay periods received must be greater than 0"]

\* A JavaScript number that is not finite (Infinity, -Infinity or NaN): what
\* a division by paysReceived = 0 and every product with it evaluates to.
NotFinite == [notFinite |-> TRUE]

\* x / y, NotFinite when the divisor is 0.
JsDiv(x, y) == IF y = Zero THEN NotFinite ELSE RDiv(x, y)

\* x * y, NotFinite when x is (y is finite and not 0 where this is used).
JsMul(x, y) == IF x = NotFinite THEN NotFinite ELSE RMul(x, y)

\* weeksElapsed: paysReceived x 1 / 2 / 4.33 / 13.
WeeksElapsed(paysReceived, payFrequency) ==
    IF payFrequency = "weekly" THEN paysReceived
    ELSE IF payFrequency = "fortnightly" THEN RMul(paysReceived, Whole(2))
    ELSE IF payFrequency = "monthly" THEN RMul(paysReceived, Rat(433, 100))
    ELSE RMul(paysReceived, Whole(13))

\* The calculateAnnualisation memo for a given state of the component.
CalculateAnnualisationOf(in, isFormValid) ==
    IF ~isFormValid THEN Null
    ELSE
      LET periodsPerYear == Whole(payFrequencyConfig(in.payFrequency))
          averagePayAmount == JsDiv(in.ytdIncome, in.paysReceived)
          remainingPayPeriods == RSub(periodsPerYear, in.paysReceived)
      IN  [averagePayAmount         |-> averagePayAmount,
           annualisedIncome         |-> JsMul(averagePayAmount, periodsPerYear),
           totalPayPeriodsInYear    |-> periodsPerYear,
           remainingPayPeriods      |-> remainingPayPeriods,
           projectedRemainingIncome |-> JsMul(averagePayAmount, remainingPayPeriods),
           monthsElapsed            |-> RDiv(WeeksElapsed(in.paysReceived, in.payFrequency),
                                             Rat(433, 100))]

\* What the component renders in the current state.
calculateAnnualisation == CalculateAnnualisationOf(annInputs, annIsFormValid)

\* The component as mounted: nothing entered, the validation effect due.
AnnInit ==
    /\ annInputs = [ytdIncome |-> Zero, paysReceived |-> Zero,
                    payFrequency |-> "fortnightly"]
    /\ annTouchedFields = [ytdIncome |-> FALSE, paysReceived |-> FALSE]
    /\ annErrors = NoErrors
    /\ annIsFormValid = FALSE
    /\ annEffectPending = TRUE

---------------------------------------------------------------------------
(* LoanCalculator.tsx                                                      *)

\* x + y, NotFinite when either is.
JsAdd(x, y) == IF x = NotFinite \/ y = NotFinite THEN NotFinite ELSE RAdd(x, y)

\* x - y, NotFinite when x is (y is finite where this is used).
JsSub(x, y) == IF x = NotFinite THEN NotFinite ELSE RSub(x, y)

\* validateInputs of LoanCalculator: the error map it returns; the later
\* assignment to newErrors.residualPayment overwrites the earlier one.
loanValidateInputs(currentInputs, touched) ==
    LET amountInError == touched.loanAmount /\ RLe(currentInputs.loanAmount, Zero)
        rateInError == touched.interestRate
                         /\ (RLt(currentInputs.interestRate, Zero)
                               \/ RLt(Whole(100), currentInputs.interestRate))
        termInError == touched.loanTerm
                         /\ (RLe(currentInputs.loanTerm, Zero)
                               \/ RLt(Whole(7), currentInputs.loanTerm))
        residualNegative == currentInputs.hasResidualPayment /\ touched.residualPayment
                              /\ RLt(currentInputs.residualPayment, Zero)
        residualTooLarge == currentInputs.hasResidualPayment /\ touched.residualPayment
                              /\ RLe(currentInputs.loanAmount, currentInputs.residualPayment)
    IN  [field \in (IF amountInError THEN {"loanAmount"} ELSE {})
                     \cup (IF rateInError THEN {"interestRate"} ELSE {})
                     \cup (IF termInError THEN {"loanTerm"} ELSE {})
                     \cup (IF residualNegative \/ residualTooLarge
                           THEN {"residualPayment"} ELSE {}) |->
            CASE field = "loanAmount" -> "Loan amount must be greater than 0"
              [] field = "interestRate" -> "Interest rate must be between 0 and 100"
              [] field = "loanTerm" -> "Loan term must be between 0 and 7 years"
              [] field = "residualPayment" ->
                   IF residualTooLarge
                   THEN "Residual payment must be less than loan amount"
                   ELSE "Residual payment cannot be negative"]

\* A validity that looks at the values only, not at the validation errors.
LoanFormValidOf_IgnoresErrors(in, touched) ==
    /\ RLt(Zero, in.loanAmount)
    /\ RLe(Zero, in.interestRate)
    /\ RLt(Zero, in.loanTerm)

\* What the validation effect of LoanCalculator hands to setIsFormValid.
LoanFormValidOf(in, touched) ==
    /\ DOMAIN loanValidateInputs(in, touched) = {}
    /\ RLt(Zero, in.loanAmount)
    /\ RLe(Zero, in.interestRate)
    /\ RLt(Zero, in.loanTerm)

\* A periodsPerYear that takes fortnightly repayments for monthly ones.
LoanPeriodsPerYear_FortnightlyAsMonthly(frequency) ==
    IF frequency = "weekly" THEN 52 ELSE 12

\* const periodsPerYear = frequency === "weekly" ? 52 : "fortnightly" ? 26 : 12
LoanPeriodsPerYear(frequency) ==
    IF frequency = "weekly" THEN 52
    ELSE IF frequency = "fortnightly" THEN 26
    ELSE 12

\* if (!isFormValid) return null: the memo is null exactly when isFormValid
\* is false, every other return being an object.
LoanResultNonNull(isFormValid) == isFormValid

\* The calculateRepayments memo of LoanCalculator for a given state.
LoanCalculateRepaymentsOf(in, isFormValid) ==
    IF ~isFormValid THEN Null
    ELSE
      LET periodsPerYear == LoanPeriodsPerYear(in.repaymentFrequency)
          periodicRate == RDiv(RDiv(in.interestRate, Whole(100)), Whole(periodsPerYear))
          totalPeriods == RMul(in.loanTerm, Whole(periodsPerYear))
          actualResidual == IF in.hasResidualPayment THEN in.residualPayment ELSE Zero
          principalToAmortize == RSub(in.loanAmount, actualResidual)
          powerTerm == Pow(RAdd(One, periodicRate), totalPeriods)
          repaymentPerPeriod ==
              JsDiv(RMul(RMul(principalToAmortize, periodicRate), powerTerm),
                    RSub(powerTerm, One))
          totalAmountPayable == JsAdd(JsMul(repaymentPerPeriod, totalPeriods), actualResidual)
      IN  IF periodicRate = Zero
          THEN [repaymentPerPeriod |-> JsDiv(principalToAmortize, totalPeriods),
                totalAmountPayable |-> RAdd(principalToAmortize, actualResidual),
                totalInterest      |-> Zero,
                periodsPerYear     |-> periodsPerYear,
                totalPeriods       |-> totalPeriods]
          ELSE [repaymentPerPeriod |-> repaymentPerPeriod,
                totalAmountPayable |-> totalAmountPayable,
                totalInterest      |-> JsSub(totalAmountPayable, in.loanAmount),
                periodsPerYear     |-> periodsPerYear,
                totalPeriods       |-> totalPeriods]

\* The for loop of the amortizationSchedule memo from paymentNumber on.
RECURSIVE LoanScheduleLoop(_, _, _, _, _, _)
LoanScheduleLoop(paymentNumber, remainingBalance, sched, repaymentPerPeriod, periodicRate, totalPeriods) ==
    IF ~RLe(Whole(paymentNumber), totalPeriods) THEN sched
    ELSE
      LET interestAmount == RMul(remainingBalance, periodicRate)
          principalAmount == RSub(repaymentPerPeriod, interestAmount)
      IN  IF Whole(paymentNumber) = totalPeriods
          THEN LoanScheduleLoop(paymentNumber + 1, remainingBalance,
                   Append(sched, [paymentNumber    |-> Whole(paymentNumber),
                                  paymentAmount    |-> RAdd(remainingBalance, interestAmount),
                                  principalAmount  |-> remainingBalance,
                                  interestAmount   |-> interestAmount,
                                  remainingBalance |-> Zero]),
                   repaymentPerPeriod, periodicRate, totalPeriods)
          ELSE LoanScheduleLoop(paymentNumber + 1,
                   RSub(remainingBalance, principalAmount),
                   Append(sched, [paymentNumber    |-> Whole(paymentNumber),
                                  paymentAmount    |-> repaymentPerPeriod,
                                  principalAmount  |-> principalAmount,
                                  interestAmount   |-> interestAmount,
                                  remainingBalance |->
                                      RMax(Zero, RSub(remainingBalance, principalAmount))]),
                   repaymentPerPeriod, periodicRate, totalPeriods)

\* The amortizationSchedule memo of LoanCalculator for a given state.
LoanAmortizationScheduleOf(in, isFormValid) ==
    IF LoanCalculateRepaymentsOf(in, isFormValid) = Null \/ ~isFormValid THEN << >>
    ELSE
      LET results == LoanCalculateRepaymentsOf(in, isFormValid)
          periodicRate == RDiv(RDiv(in.interestRate, Whole(100)), Whole(results.periodsPerYear))
          actualResidual == IF in.hasResidualPayment THEN in.residualPayment ELSE Zero
          principalToAmortize == RSub(in.loanAmount, actualResidual)
          regular == LoanScheduleLoop(1, principalToAmortize, << >>,
                         results.repaymentPerPeriod, periodicRate, results.totalPeriods)
      IN  IF in.hasResidualPayment /\ RLt(Zero, in.residualPayment)
          THEN Append(regular, [paymentNumber    |-> RAdd(results.totalPeriods, One),
                                paymentAmount    |-> in.residualPayment,
                                principalAmount  |-> in.residualPayment,
                                interestAmount   |-> Zero,
                                remainingBalance |-> Zero])
          ELSE regular

\* The component as mounted: nothing entered, the validation effect due.
LoanFormInit ==
    /\ lcInputs = [loanAmount |-> Zero, interestRate |-> Zero, loanTerm |-> Zero,
                   repaymentFrequency |-> "monthly", hasResidualPayment |-> FALSE,
                   residualPayment |-> Zero]
    /\ lcTouchedFields = [loanAmount |-> FALSE, interestRate |-> FALSE,
                          loanTerm |-> FALSE, residualPayment |-> FALSE]
    /\ lcErrors = NoErrors
    /\ lcIsFormValid = FALSE
    /\ lcEffectPending = TRUE

---------------------------------------------------------------------------
(* MortgageCalculator.tsx                                                  *)

\* validateInputs of MortgageCalculator: the error map it returns.
mortgageValidateInputs(currentInputs, touched) ==
    LET amountInError == touched.loanAmount /\ RLe(currentInputs.loanAmount, Zero)
        rateInError == touched.interestRate
                         /\ (RLt(currentInputs.interestRate, Zero)
                               \/ RLt(Whole(100), currentInputs.interestRate))
        termInError == touched.loanTerm
                         /\ (RLe(currentInputs.loanTerm, Zero)
                               \/ RLt(Whole(30), currentInputs.loanTerm))
        residualNegative == currentInputs.hasResidualPayment /\ touched.residualPayment
                              /\ RLt(currentInputs.residualPayment, Zero)
        residualTooLarge == currentInputs.hasResidualPayment /\ touched.residualPayment
                              /\ RLe(currentInputs.loanAmount, currentInputs.residualPayment)
    IN  [field \in (IF amountInError THEN {"loanAmount"} ELSE {})
                     \cup (IF rateInError THEN {"interestRate"} ELSE {})
                     \cup (IF termInError THEN {"loanTerm"} ELSE {})
                     \cup (IF residualNegative \/ residualTooLarge
                           THEN {"residualPayment"} ELSE {}) |->
            CASE field = "loanAmount" -> "Loan amount must be greater than 0"
              [] field = "interestRate" -> "Interest rate must be between 0 and 100"
              [] field = "loanTerm" -> "Loan term must be between 0 and 30 years"
              [] field = "residualPayment" ->
                   IF residualTooLarge
                   THEN "Residual payment must be less than loan amount"
                   ELSE "Residual payment cannot be negative"]

\* Mutant: the form is valid without every required field being touched.
MortgageFormValidOf_NoTouchedCheck(in, touched) ==
    /\ RLt(Zero, in.loanAmount) /\ RLe(Zero, in.interestRate) /\ RLt(Zero, in.loanTerm)
    /\ DOMAIN mortgageValidateInputs(in, touched) = {}

\* What the validation effect of MortgageCalculator hands to setIsFormValid:
\* hasRequiredFields && hasNoErrors && hasAllTouched.
MortgageFormValidOf(in, touched) ==
    /\ RLt(Zero, in.loanAmount) /\ RLe(Zero, in.interestRate) /\ RLt(Zero, in.loanTerm)
    /\ DOMAIN mortgageValidateInputs(in, touched) = {}
    /\ touched.loanAmount /\ touched.interestRate /\ touched.loanTerm

\* if (!isFormValid) return null: the memo is null exactly when isFormValid
\* is false, every other return being an object.
MortgageResultNonNull(isFormValid) == isFormValid

\* The calculateRepayments memo of MortgageCalculator for a given state.
MortgageCalculateRepaymentsOf(in, isFormValid) ==
    IF ~isFormValid THEN Null
    ELSE
      LET periodsPerYear == 12
          periodicRate == RDiv(RDiv(in.interestRate, Whole(100)), Whole(periodsPerYear))
          totalPeriods == RMul(in.loanTerm, Whole(periodsPerYear))
          actualResidual == IF in.hasResidualPayment THEN in.residualPayment ELSE Zero
          principalToAmortize == RSub(in.loanAmount, actualResidual)
          powerTerm == Pow(RAdd(One, periodicRate), totalPeriods)
          repaymentPerPeriod ==
              JsDiv(RMul(RMul(principalToAmortize, periodicRate), powerTerm),
                    RSub(powerTerm, One))
          totalAmountPayable == JsAdd(JsMul(repaymentPerPeriod, totalPeriods), actualResidual)
      IN  IF periodicRate = Zero
          THEN [repaymentPerPeriod |-> JsDiv(principalToAmortize, totalPeriods),
                totalAmountPayable |-> RAdd(principalToAmortize, actualResidual),
                totalInterest      |-> Zero,
                periodsPerYear     |-> periodsPerYear,
                totalPeriods       |-> totalPeriods]
          ELSE [repaymentPerPeriod |-> repaymentPerPeriod,
                totalAmountPayable |-> totalAmountPayable,
                totalInterest      |-> JsSub(totalAmountPayable, in.loanAmount),
                periodsPerYear     |-> periodsPerYear,
                totalPeriods       |-> totalPeriods]

\* The for loop of the amortizationSchedule memo from paymentNumber on.
RECURSIVE MortgageScheduleLoop(_, _, _, _, _, _)
MortgageScheduleLoop(paymentNumber, remainingBalance, sched, repaymentPerPeriod, periodicRate, totalPeriods) ==
    IF ~RLe(Whole(paymentNumber), totalPeriods) THEN sched
    ELSE
      LET interestAmount == RMul(remainingBalance, periodicRate)
          principalAmount == RSub(repaymentPerPeriod, interestAmount)
      IN  IF Whole(paymentNumber) = totalPeriods
          THEN MortgageScheduleLoop(paymentNumber + 1, remainingBalance,
                   Append(sched, [paymentNumber    |-> Whole(paymentNumber),
                                  paymentAmount    |-> RAdd(remainingBalance, interestAmount),
                                  principalAmount  |-> remainingBalance,
                                  interestAmount   |-> interestAmount,
                                  remainingBalance |-> Zero]),
                   repaymentPerPeriod, periodicRate, totalPeriods)
          ELSE MortgageScheduleLoop(paymentNumber + 1,
                   RSub(remainingBalance, principalAmount),
                   Append(sched, [paymentNumber    |-> Whole(paymentNumber),
                                  paymentAmount    |-> repaymentPerPeriod,
                                  principalAmount  |-> principalAmount,
                                  interestAmount   |-> interestAmount,
                                  remainingBalance |->
                                      RMax(Zero, RSub(remainingBalance, principalAmount))]),
                   repaymentPerPeriod, periodicRate, totalPeriods)

\* The amortizationSchedule memo of MortgageCalculator for a given state.
MortgageAmortizationScheduleOf(in, isFormValid) ==
    IF MortgageCalculateRepaymentsOf(in, isFormValid) = Null \/ ~isFormValid THEN << >>
    ELSE
      LET results == MortgageCalculateRepaymentsOf(in, isFormValid)
          periodicRate == RDiv(RDiv(in.interestRate, Whole(100)), Whole(results.periodsPerYear))
          actualResidual == IF in.hasResidualPayment THEN in.residualPayment ELSE Zero
          principalToAmortize == RSub(in.loanAmount, actualResidual)
          regular == MortgageScheduleLoop(1, principalToAmortize, << >>,
                         results.repaymentPerPeriod, periodicRate, results.totalPeriods)
      IN  IF in.hasResidualPayment /\ RLt(Zero, in.residualPayment)
          THEN Append(regular, [paymentNumber    |-> RAdd(results.totalPeriods, One),
                                paymentAmount    |-> in.residualPayment,
                                principalAmount  |-> in.residualPayment,
                                interestAmount   |-> Zero,
                                remainingBalance |-> Zero])
          ELSE regular

\* The component as mounted: nothing entered, the validation effect due.
MortgageFormInit ==
    /\ mcInputs = [loanAmount |-> Zero, interestRate |-> Zero, loanTerm |-> Zero,
                   hasResidualPayment |-> FALSE, residualPayment |-> Zero]
    /\ mcTouchedFields = [loanAmount |-> FALSE, interestRate |-> FALSE,
                          loanTerm |-> FALSE, residualPayment |-> FALSE]
    /\ mcErrors = NoErrors
    /\ mcIsFormValid = FALSE
    /\ mcEffectPending = TRUE

---------------------------------------------------------------------------
(* The inputs the specification draws.                                     *)

\* Loan terms are drawn as h half periods, h in -1..MaxHalfPeriods.
MaxHalfPeriods == 8

\* Loan amounts are drawn in thousands, -1..MaxLoanThousands.
MaxLoanThousands == 3

Frequencies == {"weekly", "fortnightly", "monthly"}

\* Rates per period; 1 + r is a square for each r > 0.
PeriodicRates == {Whole(-1), Zero, Rat(5, 4), Whole(3)}

LoanAmounts == {Whole(1000 * a) : a \in -1..MaxLoanThousands}

ResidualPayments ==
    {Whole(-500), Zero, Whole(500)}
      \cup {Whole(1000 * a) : a \in 1..(MaxLoanThousands + 1)}

GridInputs ==
    {[loanAmount         |-> la,
      interestRate       |-> RMul(r, Whole(100 * PeriodsPerYear(f))),
      loanTerm           |-> Rat(h, 2 * PeriodsPerYear(f)),
      repaymentFrequency |-> f,
      hasResidualPayment |-> hr,
      residualPayment    |-> rp] :
        la \in LoanAmounts, r \in PeriodicRates, h \in -1..MaxHalfPeriods,
        f \in Frequencies, hr \in BOOLEAN, rp \in ResidualPayments}

\* The zero-rate case of the unit tests: 12,000 at 0% over 1 year, monthly.
ZeroRateTestInputs ==
    [loanAmount         |-> Whole(12000),
     interestRate       |-> Zero,
     loanTerm           |-> One,
     repaymentFrequency |-> "monthly",
     hasResidualPayment |-> FALSE,
     residualPayment    |-> Zero]

---------------------------------------------------------------------------
(* The test harness: compute the result, then the schedule.                *)

\* The component as mounted: nothing entered, the validation effect due.
TaxInit ==
    /\ taxInputs = [income |-> Zero, incomeFrequency |-> "annual"]
    /\ taxTouchedFields = [income |-> FALSE]
    /\ taxErrors = NoErrors
    /\ taxIsFormValid = FALSE
    /\ taxEffectPending = TRUE

LoanInit ==
    /\ inputs \in GridInputs \cup {ZeroRateTestInputs}
    /\ calculationResults = Null
    /\ schedule = << >>
    /\ pc = "start"

Init == LoanInit /\ TaxInit /\ AnnInit /\ LoanFormInit /\ MortgageFormInit

Calculate ==
    /\ pc = "start"
    /\ calculationResults' = calculateLoanRepayments(inputs)
    /\ pc' = "calculated"
    /\ UNCHANGED <<inputs, schedule>>
    /\ UNCHANGED taxVars
    /\ UNCHANGED annVars
    /\ UNCHANGED <<lcVars, mcVars>>

GenerateSchedule ==
    /\ pc = "calculated"
    /\ schedule' = generateAmortizationSchedule(inputs, calculationResults)
    /\ pc' = "scheduled"
    /\ UNCHANGED <<inputs, calculationResults>>
    /\ UNCHANGED taxVars
    /\ UNCHANGED annVars
    /\ UNCHANGED <<lcVars, mcVars>>

Next == Calculate \/ GenerateSchedule

Spec == Init /\ [][Next]_vars

---------------------------------------------------------------------------
(* The income tax calculator: input events and the validation effect.      *)

\* Amounts typed into the income field (Number(e.target.value)); the empty
\* field is 0.
TaxIncomes ==
    {Whole(-1), Zero, Rat(1, 2), Whole(350), Whole(1500), Rat(36401, 2),
     Whole(18200), Whole(18201), Whole(20000), Whole(22575), Whole(27222),
     Whole(30000), Whole(34027), Whole(37500), Whole(45000), Rat(90001, 2),
     Whole(66667), Whole(66668), Whole(97000), Rat(194001, 2), Whole(113001),
     Whole(135000), Whole(151000), Rat(302001, 2), Whole(151001), Whole(190000), Whole(190001),
     Whole(10000000), Whole(10000100)}

TaxFrequencies == {"annual", "monthly", "weekly"}

\* handleInputChange("income", value)
HandleIncomeChange ==
    \E value \in TaxIncomes :
      /\ taxInputs' = [taxInputs EXCEPT !.income = value]
      /\ taxTouchedFields' = [taxTouchedFields EXCEPT !.income = TRUE]
      /\ taxEffectPending' = TRUE
      /\ UNCHANGED <<taxErrors, taxIsFormValid>>
      /\ UNCHANGED loanVars
      /\ UNCHANGED annVars
      /\ UNCHANGED <<lcVars, mcVars>>

\* handleInputChange("incomeFrequency", value)
HandleFrequencyChange ==
    \E value \in TaxFrequencies :
      /\ taxInputs' = [taxInputs EXCEPT !.incomeFrequency = value]
      /\ taxEffectPending' = TRUE
      /\ UNCHANGED <<taxTouchedFields, taxErrors, taxIsFormValid>>
      /\ UNCHANGED loanVars
      /\ UNCHANGED annVars
      /\ UNCHANGED <<lcVars, mcVars>>

\* useEffect(..., [inputs, touchedFields])
TaxValidationEffect ==
    /\ taxEffectPending
    /\ taxErrors' = validateInputs(taxInputs, taxTouchedFields)
    /\ taxIsFormValid' =
         (DOMAIN validateInputs(taxInputs, taxTouchedFields) = {}
            /\ RLt(Zero, taxInputs.income))
    /\ taxEffectPending' = FALSE
    /\ UNCHANGED <<taxInputs, taxTouchedFields>>
    /\ UNCHANGED loanVars
    /\ UNCHANGED annVars
    /\ UNCHANGED <<lcVars, mcVars>>

\* The loan engine is idle while the tax calculator runs.
TaxSpecInit ==
    /\ TaxInit
    /\ AnnInit
    /\ LoanFormInit
    /\ MortgageFormInit
    /\ inputs = ZeroRateTestInputs
    /\ calculationResults = Null
    /\ schedule = << >>
    /\ pc = "start"

TaxNext == HandleIncomeChange \/ HandleFrequencyChange \/ TaxValidationEffect

TaxSpec == TaxSpecInit /\ [][TaxNext]_vars

---------------------------------------------------------------------------
(* The events of IncomeAnnualisationCalculator.                            *)

\* The year-to-date incomes typed into the number input.
AnnYtdIncomes == {Whole(-100), Zero, Whole(1), Whole(26000), Rat(130001, 2)}

\* The values the pays slider hands to onValueChange.  The Slider component
\* is not among the sources, so its values are not assumed to stay within
\* min = 0 and max = periodsPerYear: the handler takes any number.
AnnSliderValues == {Whole(n) : n \in {-1, 0, 1, 2, 4, 5, 12, 13, 26, 27, 52, 53}}

AnnFrequencies == {"weekly", "fortnightly", "monthly", "quarterly"}

\* onChange of the ytdIncome input: handleInputChange("ytdIncome", value)
HandleYtdIncomeChange ==
    \E value \in AnnYtdIncomes :
      /\ annInputs' = [annInputs EXCEPT !.ytdIncome = value]
      /\ annTouchedFields' = [annTouchedFields EXCEPT !.ytdIncome = TRUE]
      /\ annEffectPending' = TRUE
      /\ UNCHANGED <<annErrors, annIsFormValid>>
      /\ UNCHANGED <<loanVars, taxVars, lcVars, mcVars>>

\* onValueChange of the slider: handleInputChange("paysReceived", value) and
\* setTouchedFields(paysReceived: true)
HandlePaysReceivedChange ==
    \E value \in AnnSliderValues :
      /\ annInputs' = [annInputs EXCEPT !.paysReceived = value]
      /\ annTouchedFields' = [annTouchedFields EXCEPT !.paysReceived = TRUE]
      /\ annEffectPending' = TRUE
      /\ UNCHANGED <<annErrors, annIsFormValid>>
      /\ UNCHANGED <<loanVars, taxVars, lcVars, mcVars>>

\* onValueChange of the frequency radio group: handleInputChange("payFrequency",
\* value), then paysReceived is reset to 0 and its touched flag to false.
HandlePayFrequencyChange ==
    \E value \in AnnFrequencies :
      /\ annInputs' = [annInputs EXCEPT !.payFrequency = value, !.paysReceived = Zero]
      /\ annTouchedFields' = [annTouchedFields EXCEPT !.paysReceived = FALSE]
      /\ annEffectPending' = TRUE
      /\ UNCHANGED <<annErrors, annIsFormValid>>
      /\ UNCHANGED <<loanVars, taxVars, lcVars, mcVars>>

\* useEffect(..., [inputs, touchedFields])
AnnValidationEffect ==
    /\ annEffectPending
    /\ annErrors' = validateAnnualisationInputs(annInputs, annTouchedFields)
    /\ annIsFormValid' =
         (DOMAIN validateAnnualisationInputs(annInputs, annTouchedFields) = {}
            /\ RLt(Zero, annInputs.ytdIncome)
            /\ RLt(Zero, annInputs.paysReceived))
    /\ annEffectPending' = FALSE
    /\ UNCHANGED <<annInputs, annTouchedFields>>
    /\ UNCHANGED <<loanVars, taxVars, lcVars, mcVars>>

\* The loan engine and the tax calculator are idle while this one runs.
AnnSpecInit ==
    /\ AnnInit
    /\ TaxInit
    /\ LoanFormInit
    /\ MortgageFormInit
    /\ inputs = ZeroRateTestInputs
    /\ calculationResults = Null
    /\ schedule = << >>
    /\ pc = "start"

AnnNext ==
    \/ HandleYtdIncomeChange
    \/ HandlePaysReceivedChange
    \/ HandlePayFrequencyChange
    \/ AnnValidationEffect

AnnSpec == AnnSpecInit /\ [][AnnNext]_vars

---------------------------------------------------------------------------
(* The events of LoanCalculator.                                           *)

\* The largest number of periods for which the PMT branch of the components
\* is evaluated.
MaxFormPeriods == 2

\* The amounts typed into the loan amount input.
LcAmounts == {Whole(-1000), Zero, Whole(1000)}

\* The annual rates (percent) typed into the interest rate input.
LcRates == {Whole(-1), Zero, Whole(100), Whole(101)}

\* The values the term slider hands to onValueChange, in years: its end
\* least value 0, a step of 0.5, and, the Slider component not being among
\* the sources, values off its steps (k months) and beyond its max of 7.
LcTerms == {Zero, Rat(1, 2), Whole(8)} \cup {Rat(k, 12) : k \in 1..MaxFormPeriods}

\* The values the residual slider hands to onValueChange.
LcResiduals == {Whole(-500), Zero, Whole(500), Whole(1000)}

\* onChange of the loan amount input: handleInputChange("loanAmount", value)
HandleLoanAmountChange ==
    \E value \in LcAmounts :
      /\ lcInputs' = [lcInputs EXCEPT !.loanAmount = value]
      /\ lcTouchedFields' = [lcTouchedFields EXCEPT !.loanAmount = TRUE]
      /\ lcEffectPending' = TRUE
      /\ UNCHANGED <<lcErrors, lcIsFormValid>>
      /\ UNCHANGED <<loanVars, taxVars, annVars, mcVars>>

\* onChange of the interest rate input: handleInputChange("interestRate", value)
HandleInterestRateChange ==
    \E value \in LcRates :
      /\ lcInputs' = [lcInputs EXCEPT !.interestRate = value]
      /\ lcTouchedFields' = [lcTouchedFields EXCEPT !.interestRate = TRUE]
      /\ lcEffectPending' = TRUE
      /\ UNCHANGED <<lcErrors, lcIsFormValid>>
      /\ UNCHANGED <<loanVars, taxVars, annVars, mcVars>>

\* onValueChange of the term slider: handleInputChange("loanTerm", value) and
\* setTouchedFields(loanTerm: true)
HandleLoanTermChange ==
    \E value \in LcTerms :
      /\ lcInputs' = [lcInputs EXCEPT !.loanTerm = value]
      /\ lcTouchedFields' = [lcTouchedFields EXCEPT !.loanTerm = TRUE]
      /\ lcEffectPending' = TRUE
      /\ UNCHANGED <<lcErrors, lcIsFormValid>>
      /\ UNCHANGED <<loanVars, taxVars, annVars, mcVars>>

\* onValueChange of the frequency radio group:
\* handleInputChange("repaymentFrequency", value); no field becomes touched.
HandleRepaymentFrequencyChange ==
    \E value \in Frequencies :
      /\ lcInputs' = [lcInputs EXCEPT !.repaymentFrequency = value]
      /\ lcEffectPending' = TRUE
      /\ UNCHANGED <<lcTouchedFields, lcErrors, lcIsFormValid>>
      /\ UNCHANGED <<loanVars, taxVars, annVars, mcVars>>

\* onCheckedChange of the balloon switch:
\* handleInputChange("hasResidualPayment", checked); no field becomes touched.
HandleResidualToggle ==
    \E checked \in BOOLEAN :
      /\ lcInputs' = [lcInputs EXCEPT !.hasResidualPayment = checked]
      /\ lcEffectPending' = TRUE
      /\ UNCHANGED <<lcTouchedFields, lcErrors, lcIsFormValid>>
      /\ UNCHANGED <<loanVars, taxVars, annVars, mcVars>>

\* onValueChange of the balloon slider, rendered while hasResidualPayment:
\* handleInputChange("residualPayment", value) and
\* setTouchedFields(residualPayment: true)
HandleResidualChange ==
    /\ lcInputs.hasResidualPayment
    /\ \E value \in LcResiduals :
         /\ lcInputs' = [lcInputs EXCEPT !.residualPayment = value]
         /\ lcTouchedFields' = [lcTouchedFields EXCEPT !.residualPayment = TRUE]
         /\ lcEffectPending' = TRUE
         /\ UNCHANGED <<lcErrors, lcIsFormValid>>
         /\ UNCHANGED <<loanVars, taxVars, annVars, mcVars>>

\* useEffect(..., [inputs, touchedFields])
LoanValidationEffect ==
    /\ lcEffectPending
    /\ lcErrors' = loanValidateInputs(lcInputs, lcTouchedFields)
    /\ lcIsFormValid' = LoanFormValidOf(lcInputs, lcTouchedFields)
    /\ lcEffectPending' = FALSE
    /\ UNCHANGED <<lcInputs, lcTouchedFields>>
    /\ UNCHANGED <<loanVars, taxVars, annVars, mcVars>>

\* The other calculators are idle while this one runs.
LoanFormSpecInit ==
    /\ LoanFormInit
    /\ MortgageFormInit
    /\ AnnInit
    /\ TaxInit
    /\ inputs = ZeroRateTestInputs
    /\ calculationResults = Null
    /\ schedule = << >>
    /\ pc = "start"

LoanFormNext ==
    \/ HandleLoanAmountChange
    \/ HandleInterestRateChange
    \/ HandleLoanTermChange
    \/ HandleRepaymentFrequencyChange
    \/ HandleResidualToggle
    \/ HandleResidualChange
    \/ LoanValidationEffect

LoanFormSpec == LoanFormSpecInit /\ [][LoanFormNext]_vars

---------------------------------------------------------------------------
(* The events of MortgageCalculator.                                       *)

McAmounts == {Whole(-1000), Zero, Whole(1000)}

McRates == {Whole(-1), Zero, Whole(100), Whole(101)}

\* The values the term slider hands to onValueChange, in years.
McTerms == {Zero, Whole(1), Whole(7), Whole(30), Whole(31)}

McResiduals == {Whole(-500), Zero, Whole(500), Whole(1000)}

\* onChange of the loan amount input: handleInputChange("loanAmount", value)
HandleMortgageAmountChange ==
    \E value \in McAmounts :
      /\ mcInputs' = [mcInputs EXCEPT !.loanAmount = value]
      /\ mcTouchedFields' = [mcTouchedFields EXCEPT !.loanAmount = TRUE]
      /\ mcEffectPending' = TRUE
      /\ UNCHANGED <<mcErrors, mcIsFormValid>>
      /\ UNCHANGED <<loanVars, taxVars, annVars, lcVars>>

\* onChange of the interest rate input: handleInputChange("interestRate", value)
HandleMortgageRateChange ==
    \E value \in McRates :
      /\ mcInputs' = [mcInputs EXCEPT !.interestRate = value]
      /\ mcTouchedFields' = [mcTouchedFields EXCEPT !.interestRate = TRUE]
      /\ mcEffectPending' = TRUE
      /\ UNCHANGED <<mcErrors, mcIsFormValid>>
      /\ UNCHANGED <<loanVars, taxVars, annVars, lcVars>>

\* onValueChange of the term slider
HandleMortgageTermChange ==
    \E value \in McTerms :
      /\ mcInputs' = [mcInputs EXCEPT !.loanTerm = value]
      /\ mcTouchedFields' = [mcTouchedFields EXCEPT !.loanTerm = TRUE]
      /\ mcEffectPending' = TRUE
      /\ UNCHANGED <<mcErrors, mcIsFormValid>>
      /\ UNCHANGED <<loanVars, taxVars, annVars, lcVars>>

\* onCheckedChange of the balloon switch; no field becomes touched.
HandleMortgageResidualToggle ==
    \E checked \in BOOLEAN :
      /\ mcInputs' = [mcInputs EXCEPT !.hasResidualPayment = checked]
      /\ mcEffectPending' = TRUE
      /\ UNCHANGED <<mcTouchedFields, mcErrors, mcIsFormValid>>
      /\ UNCHANGED <<loanVars, taxVars, annVars, lcVars>>

\* onValueChange of the balloon slider, rendered while hasResidualPayment
HandleMortgageResidualChange ==
    /\ mcInputs.hasResidualPayment
    /\ \E value \in McResiduals :
         /\ mcInputs' = [mcInputs EXCEPT !.residualPayment = value]
         /\ mcTouchedFields' = [mcTouchedFields EXCEPT !.residualPayment = TRUE]
         /\ mcEffectPending' = TRUE
         /\ UNCHANGED <<mcErrors, mcIsFormValid>>
         /\ UNCHANGED <<loanVars, taxVars, annVars, lcVars>>

\* useEffect(..., [inputs, touchedFields])
MortgageValidationEffect ==
    /\ mcEffectPending
    /\ mcErrors' = mortgageValidateInputs(mcInputs, mcTouchedFields)
    /\ mcIsFormValid' = MortgageFormValidOf(mcInputs, mcTouchedFields)
    /\ mcEffectPending' = FALSE
    /\ UNCHANGED <<mcInputs, mcTouchedFields>>
    /\ UNCHANGED <<loanVars, taxVars, annVars, lcVars>>

\* The other calculators are idle while this one runs.
MortgageSpecInit ==
    /\ MortgageFormInit
    /\ LoanFormInit
    /\ AnnInit
    /\ TaxInit
    /\ inputs = ZeroRateTestInputs
    /\ calculationResults = Null
    /\ schedule = << >>
    /\ pc = "start"

MortgageNext ==
    \/ HandleMortgageAmountChange
    \/ HandleMortgageRateChange
    \/ HandleMortgageTermChange
    \/ HandleMortgageResidualToggle
    \/ HandleMortgageResidualChange
    \/ MortgageValidationEffect

MortgageSpec == MortgageSpecInit /\ [][MortgageNext]_vars

---------------------------------------------------------------------------
(* What the claims speak of.                                               *)

\* Valid LoanParameters: principal > 0, rate >= 0, term > 0, and the residual
\* disabled or 0 <= residual < principal.
ValidLoanParameters(in) ==
    /\ RLt(Zero, in.loanAmount)
    /\ RLe(Zero, in.interestRate)
    /\ RLt(Zero, in.loanTerm)
    /\ in.hasResidualPayment =>
          RLe(Zero, in.residualPayment) /\ RLt(in.residualPayment, in.loanAmount)

\* The residual of the parameters: residualPayment if enabled, 0 otherwise.
ResidualOf(in) == IF in.hasResidualPayment THEN in.residualPayment ELSE Zero

\* term x periodsPerYear, with 52 / 26 / 12 periods per year.
TotalPeriodsOf(in) ==
    RMul(in.loanTerm,
         CASE in.repaymentFrequency = "weekly" -> Whole(52)
           [] in.repaymentFrequency = "fortnightly" -> Whole(26)
           [] in.repaymentFrequency = "monthly" -> Whole(12))

\* A balloon entry ends the schedule iff a residual > 0 is enabled.
BalloonExpected(in) == in.hasResidualPayment /\ RLt(Zero, in.residualPayment)

\* The schedule without its balloon entry.
RegularEntries ==
    IF BalloonExpected(inputs) /\ Len(schedule) > 0
    THEN SubSeq(schedule, 1, Len(schedule) - 1)
    ELSE schedule

RECURSIVE SumPrincipal(_)
SumPrincipal(s) ==
    IF s = << >> THEN Zero ELSE RAdd(Head(s).principalAmount, SumPrincipal(Tail(s)))

RECURSIVE SumPayment(_)
SumPayment(s) ==
    IF s = << >> THEN Zero ELSE RAdd(Head(s).paymentAmount, SumPayment(Tail(s)))

Scheduled == pc = "scheduled" /\ calculationResults # Null

PositiveRate(in) == RLt(Zero, in.interestRate)

---------------------------------------------------------------------------
(* C1.  Original: for every valid LoanParameters the last regular entry of *)
(* the schedule (the one before any balloon entry) has remainingBalance 0. *)
C1_Original ==
    (Scheduled /\ ValidLoanParameters(inputs) /\ Len(RegularEntries) > 0)
      => RegularEntries[Len(RegularEntries)].remainingBalance = Zero

(* C1, amended: for every valid LoanParameters whose totalPeriods          *)
(* (term x periodsPerYear) is a whole number, the schedule has a regular   *)
(* entry numbered totalPeriods, it is the last regular entry, and its      *)
(* remainingBalance is exactly 0.                                          *)
C1_LastRegularBalanceZero ==
    (Scheduled /\ ValidLoanParameters(inputs) /\ RIsWhole(TotalPeriodsOf(inputs)))
      => /\ Len(RegularEntries) = TotalPeriodsOf(inputs).num
         /\ RegularEntries[Len(RegularEntries)].paymentNumber = TotalPeriodsOf(inputs)
         /\ RegularEntries[Len(RegularEntries)].remainingBalance = Zero

C1_Witness ==
    /\ Scheduled /\ ValidLoanParameters(inputs) /\ PositiveRate(inputs)
    /\ BalloonExpected(inputs)
    /\ TotalPeriodsOf(inputs) = Whole(2)
    /\ Len(schedule) = 3
    /\ schedule[1].remainingBalance # Zero
    /\ schedule[2].remainingBalance = Zero

---------------------------------------------------------------------------
(* C2.  Original: for every valid LoanParameters the principalAmount of    *)
(* the regular entries sums to principal - residual, and that of all       *)
(* entries to the loan amount.                                             *)
C2_Original ==
    (Scheduled /\ ValidLoanParameters(inputs))
      => /\ SumPrincipal(RegularEntries) = RSub(inputs.loanAmount, ResidualOf(inputs))
         /\ SumPrincipal(schedule) = inputs.loanAmount

(* C2, amended: the same for every valid LoanParameters whose totalPeriods *)
(* is a whole number.                                                      *)
C2_PrincipalSums ==
    (Scheduled /\ ValidLoanParameters(inputs) /\ RIsWhole(TotalPeriodsOf(inputs)))
      => /\ SumPrincipal(RegularEntries) = RSub(inputs.loanAmount, ResidualOf(inputs))
         /\ SumPrincipal(schedule) = inputs.loanAmount

C2_Witness ==
    /\ Scheduled /\ ValidLoanParameters(inputs) /\ PositiveRate(inputs)
    /\ BalloonExpected(inputs)
    /\ TotalPeriodsOf(inputs) = Whole(2)
    /\ Len(RegularEntries) = 2
    /\ RLt(RegularEntries[1].principalAmount, RegularEntries[2].principalAmount)
    /\ SumPrincipal(RegularEntries) = RSub(inputs.loanAmount, inputs.residualPayment)

---------------------------------------------------------------------------
(* C3.  Original: for every valid LoanParameters the paymentAmount of all  *)
(* entries (balloon included) sums to totalAmountPayable.                  *)
C3_Original ==
    (Scheduled /\ ValidLoanParameters(inputs))
      => SumPayment(schedule) = calculationResults.totalAmountPayable

(* C3, amended: the same for every valid LoanParameters whose totalPeriods *)
(* is a whole number.                                                      *)
C3_PaymentSum ==
    (Scheduled /\ ValidLoanParameters(inputs) /\ RIsWhole(TotalPeriodsOf(inputs)))
      => SumPayment(schedule) = calculationResults.totalAmountPayable

C3_Witness ==
    /\ Scheduled /\ ValidLoanParameters(inputs) /\ PositiveRate(inputs)
    /\ BalloonExpected(inputs)
    /\ TotalPeriodsOf(inputs) = Whole(2)
    /\ Len(schedule) = 3
    /\ SumPayment(schedule) = calculationResults.totalAmountPayable
    /\ RLt(inputs.loanAmount, calculationResults.totalAmountPayable)

---------------------------------------------------------------------------
(* C4.  calculateLoanRepayments returns null whenever hasResidualPayment   *)
(* is true and residualPayment >= loanAmount or residualPayment < 0.       *)
C4_EngineRejectsResidual ==
    (pc # "start" /\ inputs.hasResidualPayment
       /\ (RLe(inputs.loanAmount, inputs.residualPayment)
             \/ RLt(inputs.residualPayment, Zero)))
      => calculationResults = Null

---------------------------------------------------------------------------
(* C5.  For every accepted income, the taxAmount of the lines of the tax   *)
(* breakdown (one per bracket entered plus the negative offset line) sums  *)
(* to TaxResult.incomeTax.                                                 *)
C5_BreakdownSumsToIncomeTax ==
    (~taxEffectPending /\ taxIsFormValid)
      => SumTaxAmount(taxBreakdown) = calculateTax.incomeTax

---------------------------------------------------------------------------
(* C6.  calculateLoanRepayments returns null exactly when loanAmount <= 0, *)
(* interestRate < 0 or loanTerm <= 0, and a five-field result otherwise.   *)
C6_NullIffInvalid ==
    pc # "start" =>
      IF RLe(inputs.loanAmount, Zero) \/ RLt(inputs.interestRate, Zero)
           \/ RLe(inputs.loanTerm, Zero)
      THEN calculationResults = Null
      ELSE /\ calculationResults # Null
           /\ DOMAIN calculationResults =
                {"repaymentPerPeriod", "totalAmountPayable", "totalInterest",
                 "periodsPerYear", "totalPeriods"}

C6_Witness ==
    /\ pc = "calculated"
    /\ inputs.loanAmount = Zero
    /\ RLt(Zero, inputs.interestRate) /\ RLt(Zero, inputs.loanTerm)
    /\ calculationResults = Null

---------------------------------------------------------------------------
(* C7.  Every result satisfies totalAmountPayable = repaymentPerPeriod *   *)
(* totalPeriods + residual and totalInterest = totalAmountPayable -        *)
(* principal, in the zero-rate and in the positive-rate branch.            *)
C7_ResultInvariant ==
    (pc # "start" /\ calculationResults # Null)
      => /\ calculationResults.totalAmountPayable =
              RAdd(RMul(calculationResults.repaymentPerPeriod,
                        calculationResults.totalPeriods),
                   ResidualOf(inputs))
         /\ calculationResults.totalInterest =
              RSub(calculationResults.totalAmountPayable, inputs.loanAmount)

C7_Witness ==
    /\ pc = "calculated" /\ calculationResults # Null
    /\ PositiveRate(inputs)
    /\ inputs.hasResidualPayment /\ RLt(Zero, inputs.residualPayment)
    /\ RLt(Zero, calculationResults.totalInterest)
    /\ calculationResults.totalInterest =
         RSub(calculationResults.totalAmountPayable, inputs.loanAmount)

---------------------------------------------------------------------------
(* C8.  For every entry of every schedule, principalAmount +               *)
(* interestAmount = paymentAmount.                                         *)
C8_EntrySplitsPayment ==
    pc = "scheduled" =>
      \A i \in 1..Len(schedule) :
        RAdd(schedule[i].principalAmount, schedule[i].interestAmount)
          = schedule[i].paymentAmount

C8_Witness ==
    /\ Scheduled /\ PositiveRate(inputs) /\ BalloonExpected(inputs)
    /\ Len(schedule) = 3
    /\ \A i \in 1..2 : RLt(Zero, schedule[i].interestAmount)
    /\ schedule[3].interestAmount = Zero
    /\ \A i \in 1..3 : RLt(Zero, schedule[i].principalAmount)

---------------------------------------------------------------------------
(* C9.  Original: when periodicRate > 0, across the schedule the           *)
(* interestAmount is non-increasing and the principalAmount non-decreasing *)
(* from each entry to the next.                                            *)
C9_Original ==
    (Scheduled /\ PositiveRate(inputs))
      => \A i \in 1..(Len(schedule) - 1) :
           /\ RLe(schedule[i + 1].interestAmount, schedule[i].interestAmount)
           /\ RLe(schedule[i].principalAmount, schedule[i + 1].principalAmount)

(* C9, amended: for valid LoanParameters with periodicRate > 0, the        *)
(* interestAmount is non-increasing across the whole schedule and the      *)
(* principalAmount is non-decreasing across the regular entries (the       *)
(* balloon entry's principal, the residual, may be smaller than the last   *)
(* regular principal).                                                     *)
C9_Monotone ==
    (Scheduled /\ PositiveRate(inputs) /\ ValidLoanParameters(inputs))
      => /\ \A i \in 1..(Len(schedule) - 1) :
              RLe(schedule[i + 1].interestAmount, schedule[i].interestAmount)
         /\ \A i \in 1..(Len(RegularEntries) - 1) :
              RLe(RegularEntries[i].principalAmount,
                  RegularEntries[i + 1].principalAmount)

C9_Witness ==
    /\ Scheduled /\ PositiveRate(inputs) /\ ValidLoanParameters(inputs)
    /\ BalloonExpected(inputs)
    /\ Len(RegularEntries) = 2
    /\ RLt(RegularEntries[2].interestAmount, RegularEntries[1].interestAmount)
    /\ RLt(RegularEntries[1].principalAmount, RegularEntries[2].principalAmount)
    /\ RLt(schedule[3].principalAmount, schedule[2].principalAmount)

---------------------------------------------------------------------------
(* C10.  For zero-rate loans the payment is (principal - residual) /       *)
(* totalPeriods exactly, totalInterest is 0 and totalAmountPayable is the  *)
(* principal; 12,000 at 0% over 1 year monthly gives exactly 1,000.        *)
C10_ZeroRate ==
    (pc # "start" /\ calculationResults # Null /\ inputs.interestRate = Zero)
      => /\ calculationResults.repaymentPerPeriod =
              RDiv(RSub(inputs.loanAmount, ResidualOf(inputs)),
                   TotalPeriodsOf(inputs))
         /\ calculationResults.totalInterest = Zero
         /\ calculationResults.totalAmountPayable = inputs.loanAmount
         /\ (inputs = ZeroRateTestInputs
               => calculationResults.repaymentPerPeriod = Whole(1000))

C10_Witness ==
    /\ pc = "calculated"
    /\ inputs = ZeroRateTestInputs
    /\ calculationResults.repaymentPerPeriod = Whole(1000)
    /\ calculationResults.totalPeriods = Whole(12)
    /\ calculationResults.totalInterest = Zero

---------------------------------------------------------------------------
\* The largest whole number not above a positive rational.
Floor(x) == x.num \div x.den

\* 1 when a balloon entry is expected to end the schedule, 0 otherwise.
BalloonCount(in) == IF BalloonExpected(in) THEN 1 ELSE 0

(* C11.  Original: generateAmortizationSchedule returns an empty sequence  *)
(* when the result is absent; otherwise exactly totalPeriods (= term x     *)
(* periodsPerYear) regular entries numbered 1..totalPeriods, followed, iff *)
(* a residual > 0 is enabled, by exactly one entry numbered totalPeriods+1 *)
(* with paymentAmount = principalAmount = residual, interestAmount 0 and   *)
(* remainingBalance 0.                                                     *)
C11_Original ==
    pc = "scheduled" =>
      IF calculationResults = Null THEN schedule = << >>
      ELSE /\ Whole(Len(schedule) - BalloonCount(inputs)) = TotalPeriodsOf(inputs)
           /\ \A i \in 1..(Len(schedule) - BalloonCount(inputs)) :
                 schedule[i].paymentNumber = Whole(i)
           /\ BalloonExpected(inputs) =>
                 schedule[Len(schedule)] =
                   [paymentNumber    |-> RAdd(TotalPeriodsOf(inputs), One),
                    paymentAmount    |-> inputs.residualPayment,
                    principalAmount  |-> inputs.residualPayment,
                    interestAmount   |-> Zero,
                    remainingBalance |-> Zero]

(* C11, amended: generateAmortizationSchedule returns an empty sequence    *)
(* when the result is absent; otherwise it returns floor(totalPeriods)     *)
(* regular entries numbered 1..floor(totalPeriods) (exactly totalPeriods   *)
(* of them when totalPeriods is a whole number), followed, iff a residual  *)
(* > 0 is enabled, by exactly one entry numbered totalPeriods+1 with       *)
(* paymentAmount = principalAmount = residual, interestAmount 0 and        *)
(* remainingBalance 0.                                                     *)
C11_ScheduleShape ==
    pc = "scheduled" =>
      IF calculationResults = Null THEN schedule = << >>
      ELSE /\ Len(schedule) = Floor(TotalPeriodsOf(inputs)) + BalloonCount(inputs)
           /\ \A i \in 1..Floor(TotalPeriodsOf(inputs)) :
                 schedule[i].paymentNumber = Whole(i)
           /\ BalloonExpected(inputs) =>
                 schedule[Len(schedule)] =
                   [paymentNumber    |-> RAdd(TotalPeriodsOf(inputs), One),
                    paymentAmount    |-> inputs.residualPayment,
                    principalAmount  |-> inputs.residualPayment,
                    interestAmount   |-> Zero,
                    remainingBalance |-> Zero]

C11_Witness ==
    /\ Scheduled /\ BalloonExpected(inputs)
    /\ TotalPeriodsOf(inputs) = Whole(3)
    /\ Len(schedule) = 4
    /\ schedule[3].paymentNumber = Whole(3)
    /\ schedule[4].paymentNumber = Whole(4)
    /\ schedule[4].paymentAmount = inputs.residualPayment
    /\ schedule[4].interestAmount = Zero

---------------------------------------------------------------------------
\* The same parameters with the residual switched off.
WithoutResidual(in) == [in EXCEPT !.hasResidualPayment = FALSE]

\* An enabled residual R with 0 < R < principal.
ResidualInsidePrincipal(in) ==
    /\ in.hasResidualPayment
    /\ RLt(Zero, in.residualPayment)
    /\ RLt(in.residualPayment, in.loanAmount)

(* C12.  A balloon payment reduces the periodic payment: for fixed         *)
(* principal, rate, term and frequency, the repaymentPerPeriod computed    *)
(* with an enabled residual R (0 < R < principal) is strictly smaller than *)
(* the one computed without a residual.                                    *)
C12_BalloonReducesPayment ==
    (pc # "start" /\ ValidLoanParameters(inputs) /\ ResidualInsidePrincipal(inputs))
      => /\ calculationResults # Null
         /\ calculateLoanRepayments(WithoutResidual(inputs)) # Null
         /\ RLt(calculationResults.repaymentPerPeriod,
                calculateLoanRepayments(WithoutResidual(inputs)).repaymentPerPeriod)

C12_Witness ==
    /\ pc = "calculated"
    /\ ValidLoanParameters(inputs) /\ ResidualInsidePrincipal(inputs)
    /\ PositiveRate(inputs)
    /\ inputs.loanAmount = Whole(2000) /\ inputs.residualPayment = Whole(500)
    /\ RLt(Zero, calculationResults.repaymentPerPeriod)
    /\ RLt(calculationResults.repaymentPerPeriod,
           calculateLoanRepayments(WithoutResidual(inputs)).repaymentPerPeriod)

---------------------------------------------------------------------------
\* The taxable income of the current state of the tax calculator.
TaxableIncomeNow == getAnnualIncome(taxInputs.income, taxInputs.incomeFrequency)

\* The progressive scale as the claim states it: floor, top and rate of each
\* taxed bracket; the last bracket has no top.
ProgressiveScale ==
    << [floor |-> Whole(18200),  top |-> Whole(45000),  rate |-> Rat(16, 100)],
       [floor |-> Whole(45000),  top |-> Whole(135000), rate |-> Rat(30, 100)],
       [floor |-> Whole(135000), top |-> Whole(190000), rate |-> Rat(37, 100)],
       [floor |-> Whole(190000), top |-> Null,          rate |-> Rat(45, 100)] >>

\* min(income - floor, bracket width) x rate for a bracket whose floor is
\* below the income, 0 for the others.
ProgressivePart(b, income) ==
    IF ~RLt(b.floor, income) THEN Zero
    ELSE IF b.top = Null THEN RMul(RSub(income, b.floor), b.rate)
    ELSE RMul(RMin(RSub(income, b.floor), RSub(b.top, b.floor)), b.rate)

RECURSIVE ProgressiveTax(_, _)
ProgressiveTax(income, i) ==
    IF i > Len(ProgressiveScale) THEN Zero
    ELSE RAdd(ProgressivePart(ProgressiveScale[i], income),
              ProgressiveTax(income, i + 1))

(* C13.  Bracket tax is progressive: for every taxable income it equals    *)
(* the sum, over the brackets whose floor (18,200 / 45,000 / 135,000 /     *)
(* 190,000) is below the income, of min(income - floor, bracket width) x   *)
(* rate (16% / 30% / 37% / 45%); it is 0 at 18,200 and 4,288 at 45,000     *)
(* before offset, and incomeTax = max(0, bracketTax - offset).             *)
C13_ProgressiveBracketTax ==
    /\ BracketTax(TaxableIncomeNow) = ProgressiveTax(TaxableIncomeNow, 1)
    /\ BracketTax(Whole(18200)) = Zero
    /\ BracketTax(Whole(45000)) = Whole(4288)
    /\ calculateIncomeTax(TaxableIncomeNow) =
         RMax(Zero, RSub(ProgressiveTax(TaxableIncomeNow, 1),
                         calculateLITO(TaxableIncomeNow)))
    /\ calculateTax # Null =>
         calculateTax.incomeTax = calculateIncomeTax(TaxableIncomeNow)

C13_Witness ==
    /\ taxInputs = [income |-> Whole(97000), incomeFrequency |-> "annual"]
    /\ calculateTax # Null
    /\ BracketTax(TaxableIncomeNow) = Whole(4288 + 15600)
    /\ calculateTax.incomeTax = Whole(19888)

---------------------------------------------------------------------------
\* Every taxable income the form can hold: an entered income at a frequency.
TaxableIncomes ==
    {getAnnualIncome(income, frequency) : income \in TaxIncomes, frequency \in TaxFrequencies}

\* p percent of the excess of the income over a threshold.
PercentOfExcess(pNum, pDen, income, threshold) ==
    RMul(RSub(income, threshold), Rat(pNum, pDen * 100))

\* The offset as the claim states it, each segment floored at 0.
OffsetSegments(income) ==
    IF RLe(income, Whole(37500)) THEN Whole(700)
    ELSE IF RLe(income, Whole(45000))
    THEN RMax(Zero, RSub(Whole(700), PercentOfExcess(5, 1, income, Whole(37500))))
    ELSE IF RLe(income, Whole(66667))
    THEN RMax(Zero, RSub(Whole(325), PercentOfExcess(15, 10, income, Whole(45000))))
    ELSE Zero

(* C14.  The low-income offset is 700 for taxable income <= 37,500, 700 -  *)
(* 5% of the excess over 37,500 up to 45,000, 325 - 1.5% of the excess     *)
(* over 45,000 up to 66,667 (each segment floored at 0) and 0 beyond; it   *)
(* is never negative, never increases as income rises, and is 0 for every  *)
(* taxable income >= 66,667.                                               *)
C14_LowIncomeOffset ==
    /\ calculateLITO(TaxableIncomeNow) = OffsetSegments(TaxableIncomeNow)
    /\ RLe(Zero, calculateLITO(TaxableIncomeNow))
    /\ RLe(Whole(66667), TaxableIncomeNow) => calculateLITO(TaxableIncomeNow) = Zero
    /\ \A higher \in TaxableIncomes :
         RLe(TaxableIncomeNow, higher)
           => RLe(calculateLITO(higher), calculateLITO(TaxableIncomeNow))

C14_Witness ==
    /\ taxInputs = [income |-> Whole(66667), incomeFrequency |-> "annual"]
    /\ calculateTax # Null
    /\ calculateLITO(TaxableIncomeNow) = Zero
    /\ RLt(RSub(Whole(325), PercentOfExcess(15, 10, TaxableIncomeNow, Whole(45000))), Zero)
    /\ calculateLITO(Rat(90001, 2)) = Rat(3249925, 10000)

---------------------------------------------------------------------------
\* 2% of an income.
TwoPercentOf(income) == RDiv(RMul(income, Whole(2)), Whole(100))

\* The levy as the claim states it.
LevySegments(income) ==
    IF RLe(income, Whole(27222)) THEN Zero
    ELSE IF RLe(income, Whole(34027))
    THEN RMin(PercentOfExcess(10, 1, income, Whole(27222)), TwoPercentOf(income))
    ELSE TwoPercentOf(income)

(* C15.  The Medicare levy is 0 for taxable income <= 27,222; for income   *)
(* in (27,222, 34,027] it is min(10% x (income - 27,222), 2% x income);    *)
(* above 34,027 it is 2% x income; hence the levy of an income (an amount  *)
(* >= 0) never exceeds 2% of the income.                                   *)
C15_MedicareLevy ==
    /\ calculateMedicareLevy(TaxableIncomeNow) = LevySegments(TaxableIncomeNow)
    /\ RLe(Zero, TaxableIncomeNow)
         => RLe(calculateMedicareLevy(TaxableIncomeNow), TwoPercentOf(TaxableIncomeNow))
    /\ calculateTax # Null =>
         calculateTax.medicareLevy = calculateMedicareLevy(TaxableIncomeNow)

C15_Witness ==
    /\ taxInputs = [income |-> Whole(30000), incomeFrequency |-> "annual"]
    /\ calculateTax # Null
    /\ calculateTax.medicareLevy = Rat(2778, 10)
    /\ RLt(calculateTax.medicareLevy, TwoPercentOf(TaxableIncomeNow))
    /\ calculateMedicareLevy(Whole(34027)) = Rat(6805, 10)
    /\ calculateMedicareLevy(Whole(45000)) = Whole(900)

---------------------------------------------------------------------------
\* The surcharge rate of an income as the claim states the tiers; for the
\* amounts strictly between 97,000 and 97,001 or 113,000 and 113,001 the
\* claim names no tier and Null stands for "not stated".
SurchargeTierRate(income) ==
    IF RLe(income, Whole(97000)) THEN Zero
    ELSE IF RLe(Whole(97001), income) /\ RLe(income, Whole(113000)) THEN Rat(1, 100)
    ELSE IF RLe(Whole(113001), income) /\ RLe(income, Whole(151000)) THEN Rat(125, 10000)
    ELSE IF RLt(Whole(151000), income) THEN Rat(15, 1000)
    ELSE Null

(* C16.  For every taxable income > 0 the Medicare levy surcharge equals   *)
(* rate x the full taxable income, where rate is that of the tier whose    *)
(* range contains the income (0% up to 97,000; 1% for 97,001-113,000;      *)
(* 1.25% for 113,001-151,000; 1.5% above 151,000).                         *)
C16_SurchargeFlatOnTier ==
    (RLt(Zero, TaxableIncomeNow) /\ SurchargeTierRate(TaxableIncomeNow) # Null)
      => /\ calculateMedicareLevySurcharge(TaxableIncomeNow) =
              RMul(SurchargeTierRate(TaxableIncomeNow), TaxableIncomeNow)
         /\ calculateTax # Null =>
              calculateTax.medicareLevySurcharge =
                RMul(SurchargeTierRate(TaxableIncomeNow), TaxableIncomeNow)

---------------------------------------------------------------------------
\* The brackets of the table whose range [min, max] holds the income.
BracketsHolding(income) ==
    {i \in 1..Len(taxBrackets) :
        /\ RLe(taxBrackets[i].min, income)
        /\ taxBrackets[i].max = Null \/ RLe(income, taxBrackets[i].max)}

(* C17.  The tax bracket table covers [0, infinity) without overlap: every *)
(* taxable income >= 0 (non-whole-dollar amounts included) lies in exactly *)
(* one bracket, and getMarginalTaxRate returns the rate of that bracket    *)
(* and never falls through to its default 0.                               *)
C17_BracketsCoverIncome ==
    RLe(Zero, TaxableIncomeNow)
      => /\ Cardinality(BracketsHolding(TaxableIncomeNow)) = 1
         /\ FirstBracket(taxBrackets, TaxableIncomeNow, 1) # 0
         /\ \A i \in BracketsHolding(TaxableIncomeNow) :
              getMarginalTaxRate(TaxableIncomeNow) = taxBrackets[i].rate

---------------------------------------------------------------------------
\* The frequency multiplier as the claim states it.
FrequencyMultiplier(frequency) ==
    CASE frequency = "weekly" -> Whole(52)
      [] frequency = "monthly" -> Whole(12)
      [] frequency = "annual" -> Whole(1)

(* C18.  Every TaxResult satisfies totalTax = incomeTax + medicareLevy +   *)
(* medicareLevySurcharge and netIncome = grossIncome - totalTax, where     *)
(* grossIncome is the entered income multiplied by 52 (weekly), 12         *)
(* (monthly) or 1 (annual) and taxableIncome = grossIncome.                *)
C18_TaxResultInvariant ==
    calculateTax # Null
      => /\ calculateTax.totalTax =
              RAdd(calculateTax.incomeTax,
                   RAdd(calculateTax.medicareLevy, calculateTax.medicareLevySurcharge))
         /\ calculateTax.netIncome = RSub(calculateTax.grossIncome, calculateTax.totalTax)
         /\ calculateTax.grossIncome =
              RMul(taxInputs.income, FrequencyMultiplier(taxInputs.incomeFrequency))
         /\ calculateTax.taxableIncome = calculateTax.grossIncome

C18_Witness ==
    /\ taxInputs = [income |-> Whole(1500), incomeFrequency |-> "weekly"]
    /\ ~taxEffectPending
    /\ calculateTax # Null
    /\ calculateTax.grossIncome = Whole(78000)
    /\ RLt(Zero, calculateTax.incomeTax) /\ RLt(Zero, calculateTax.medicareLevy)
    /\ RLt(calculateTax.netIncome, calculateTax.grossIncome)

---------------------------------------------------------------------------
(* C19.  Original: TaxResult.effectiveRate equals totalTax / grossIncome   *)
(* when grossIncome > 0 and 0 otherwise.                                   *)
C19_Original ==
    calculateTax # Null
      => calculateTax.effectiveTaxRate =
           IF RLt(Zero, calculateTax.grossIncome)
           THEN RDiv(calculateTax.totalTax, calculateTax.grossIncome)
           ELSE Zero

(* C19, amended: TaxResult.effectiveTaxRate is a percentage: it equals     *)
(* (totalTax / grossIncome) x 100 when grossIncome > 0 and 0 otherwise.    *)
C19_EffectiveRatePercent ==
    calculateTax # Null
      => IF RLt(Zero, calculateTax.grossIncome)
         THEN RDiv(calculateTax.effectiveTaxRate, Whole(100)) =
                RDiv(calculateTax.totalTax, calculateTax.grossIncome)
         ELSE calculateTax.effectiveTaxRate = Zero

C19_Witness ==
    /\ taxInputs = [income |-> Whole(45000), incomeFrequency |-> "annual"]
    /\ calculateTax # Null
    /\ calculateTax.totalTax = Whole(3963 + 900)
    /\ calculateTax.effectiveTaxRate = Rat(4863, 450)
    /\ calculateTax.effectiveTaxRate # RDiv(calculateTax.totalTax, calculateTax.grossIncome)

---------------------------------------------------------------------------
\* periodsPerYear(frequency) as the claim states it.
PaysPerYear(frequency) ==
    CASE frequency = "weekly" -> Whole(52)
      [] frequency = "fortnightly" -> Whole(26)
      [] frequency = "monthly" -> Whole(12)
      [] frequency = "quarterly" -> Whole(4)

\* The inputs the annualisation rejects.
AnnualisationRejects(in) ==
    \/ RLe(in.ytdIncome, Zero)
    \/ RLe(in.paysReceived, Zero)
    \/ RLt(PaysPerYear(in.payFrequency), in.paysReceived)

\* A result with its six fields, each a finite number.
CompleteAnnualisation(result) ==
    /\ result # Null
    /\ DOMAIN result = {"averagePayAmount", "annualisedIncome", "totalPayPeriodsInYear",
                        "remainingPayPeriods", "projectedRemainingIncome", "monthsElapsed"}
    /\ \A field \in DOMAIN result : result[field] # NotFinite

(* C20.  The annualisation yields no result whenever ytdIncome <= 0,       *)
(* paysReceived <= 0 or paysReceived > periodsPerYear(frequency) (52 / 26  *)
(* / 12 / 4 for weekly / fortnightly / monthly / quarterly): no render     *)
(* shows a result computed from such inputs; and it yields a complete      *)
(* result otherwise, as soon as the validation effect has run.             *)
C20_RejectsOrCompletes ==
    /\ AnnualisationRejects(annInputs) => calculateAnnualisation = Null
    /\ (~annEffectPending /\ ~AnnualisationRejects(annInputs))
         => CompleteAnnualisation(calculateAnnualisation)

\* What does hold in every state: the renders that follow the validation
\* effect show no result for rejected inputs and a complete one otherwise.
AnnualisationSettled ==
    ~annEffectPending
      => IF AnnualisationRejects(annInputs)
         THEN calculateAnnualisation = Null
         ELSE CompleteAnnualisation(calculateAnnualisation)

\* The render between a frequency change on a valid form and the validation
\* effect: paysReceived is 0 and a result is computed from it.
AnnualisationFromZeroPays ==
    /\ annEffectPending
    /\ annInputs.paysReceived = Zero
    /\ calculateAnnualisation # Null
    /\ calculateAnnualisation.averagePayAmount = NotFinite

---------------------------------------------------------------------------
(* C21.  For every accepted annualisation input, averagePayAmount =        *)
(* ytdIncome / paysReceived, annualisedIncome = averagePayAmount x         *)
(* periodsPerYear, remainingPayPeriods = periodsPerYear - paysReceived and *)
(* projectedRemainingIncome = averagePayAmount x remainingPayPeriods;      *)
(* 26,000 over 13 fortnightly pays gives average pay 2,000, annualised     *)
(* income 52,000 and 13 remaining periods.                                 *)
C21_AnnualisationFormulas ==
    /\ (calculateAnnualisation # Null /\ ~AnnualisationRejects(annInputs))
         => /\ calculateAnnualisation.averagePayAmount =
                 RDiv(annInputs.ytdIncome, annInputs.paysReceived)
            /\ calculateAnnualisation.annualisedIncome =
                 RMul(calculateAnnualisation.averagePayAmount,
                      PaysPerYear(annInputs.payFrequency))
            /\ calculateAnnualisation.remainingPayPeriods =
                 RSub(PaysPerYear(annInputs.payFrequency), annInputs.paysReceived)
            /\ calculateAnnualisation.projectedRemainingIncome =
                 RMul(calculateAnnualisation.averagePayAmount,
                      calculateAnnualisation.remainingPayPeriods)
    /\ LET example == CalculateAnnualisationOf(
                          [ytdIncome |-> Whole(26000), paysReceived |-> Whole(13),
                           payFrequency |-> "fortnightly"], TRUE)
       IN  /\ example.averagePayAmount = Whole(2000)
           /\ example.annualisedIncome = Whole(52000)
           /\ example.remainingPayPeriods = Whole(13)

C21_Witness ==
    /\ ~annEffectPending
    /\ annInputs = [ytdIncome |-> Whole(26000), paysReceived |-> Whole(13),
                    payFrequency |-> "fortnightly"]
    /\ calculateAnnualisation # Null
    /\ calculateAnnualisation.averagePayAmount = Whole(2000)
    /\ calculateAnnualisation.annualisedIncome = Whole(52000)
    /\ calculateAnnualisation.remainingPayPeriods = Whole(13)
    /\ calculateAnnualisation.projectedRemainingIncome = Whole(26000)


---------------------------------------------------------------------------
(* C22: the extracted module and the components compute the same.          *)

\* The inputs of LoanCalculator as MortgageCalculator holds them: the same
\* fields without a repayment frequency.
AsMortgageInputs(in) ==
    [loanAmount         |-> in.loanAmount,
     interestRate       |-> in.interestRate,
     loanTerm           |-> in.loanTerm,
     hasResidualPayment |-> in.hasResidualPayment,
     residualPayment    |-> in.residualPayment]

\* The inputs whose results the exact arithmetic of this module evaluates:
\* a zero rate, or a whole number of at most MaxFormPeriods periods.
Computable(in) ==
    \/ in.interestRate = Zero
    \/ LET totalPeriods == RMul(in.loanTerm, Whole(LoanPeriodsPerYear(in.repaymentFrequency)))
       IN  RIsWhole(totalPeriods) /\ RLe(totalPeriods, Whole(MaxFormPeriods))

\* The form of LoanCalculator is valid and its validation effect has run.
LoanFormSettledValid == lcIsFormValid /\ ~lcEffectPending

\* C22: on every input record on which the LoanCalculator form is valid, the
\* extracted module's calculateLoanRepayments and generateAmortizationSchedule
\* return the result and the schedule of the component's calculateRepayments
\* and amortizationSchedule memos, and at monthly frequency the memos of
\* MortgageCalculator return the same values for the same inputs.
C22_SameCalculation ==
    (LoanFormSettledValid /\ Computable(lcInputs)) =>
      /\ LoanCalculateRepaymentsOf(lcInputs, lcIsFormValid) = calculateLoanRepayments(lcInputs)
      /\ LoanAmortizationScheduleOf(lcInputs, lcIsFormValid)
           = generateAmortizationSchedule(lcInputs, calculateLoanRepayments(lcInputs))
      /\ (lcInputs.repaymentFrequency = "monthly") =>
           /\ MortgageCalculateRepaymentsOf(AsMortgageInputs(lcInputs), TRUE)
                = calculateLoanRepayments(lcInputs)
           /\ MortgageAmortizationScheduleOf(AsMortgageInputs(lcInputs), TRUE)
                = generateAmortizationSchedule(lcInputs, calculateLoanRepayments(lcInputs))

\* A valid form with a positive rate, a balloon and monthly
\* repayments, whose result and schedule are the extracted module's.
C22_Witness ==
    /\ LoanFormSettledValid
    /\ Computable(lcInputs)
    /\ lcInputs.repaymentFrequency = "monthly"
    /\ RLt(Zero, lcInputs.interestRate)
    /\ lcInputs.hasResidualPayment
    /\ RLt(Zero, lcInputs.residualPayment)
    /\ Len(LoanAmortizationScheduleOf(lcInputs, lcIsFormValid)) = 3
    /\ LoanCalculateRepaymentsOf(lcInputs, lcIsFormValid) = calculateLoanRepayments(lcInputs)

---------------------------------------------------------------------------
(* C23: the red flags of the verification guide.                            *)

\* An entry with a negative payment, or with more principal than payment.
RedFlag(entry) ==
    \/ RLt(entry.paymentAmount, Zero)
    \/ RLt(entry.paymentAmount, entry.principalAmount)

\* C23: for every input on which calculateLoanRepayments returns a result,
\* no entry of the schedule has a negative paymentAmount and no entry has a
\* principalAmount above its paymentAmount.
C23_NoRedFlags ==
    Scheduled => \A i \in 1..Len(schedule) : ~RedFlag(schedule[i])

\* The red flags stay away while the residual is one the form would accept:
\* they come only with a residual the engine should have rejected.
RedFlagsNeedInvalidResidual ==
    (Scheduled /\ ValidLoanParameters(inputs)) =>
      \A i \in 1..Len(schedule) : ~RedFlag(schedule[i])

---------------------------------------------------------------------------
(* C24: what a settled LoanCalculator computes from.                        *)

\* The validation effect of LoanCalculator has run on the current inputs.
LoanFormSettled == ~lcEffectPending

\* C24: in LoanCalculator, after any sequence of input events and once the
\* validation effect has run, a non-null calculateRepayments implies
\* loanAmount > 0, 0 <= interestRate <= 100, 0 < loanTerm <= 7 and, when
\* hasResidualPayment is true, 0 <= residualPayment < loanAmount.
C24_SettledResultFromValidInputs ==
    (LoanFormSettled /\ LoanResultNonNull(lcIsFormValid)) =>
      /\ RLt(Zero, lcInputs.loanAmount)
      /\ RLe(Zero, lcInputs.interestRate) /\ RLe(lcInputs.interestRate, Whole(100))
      /\ RLt(Zero, lcInputs.loanTerm) /\ RLe(lcInputs.loanTerm, Whole(7))
      /\ lcInputs.hasResidualPayment =>
           /\ RLe(Zero, lcInputs.residualPayment)
           /\ RLt(lcInputs.residualPayment, lcInputs.loanAmount)

\* A settled form showing a result for a loan with an enabled balloon that
\* the slider has set.
C24_Witness ==
    /\ LoanFormSettled
    /\ LoanResultNonNull(lcIsFormValid)
    /\ lcInputs.hasResidualPayment
    /\ lcTouchedFields.residualPayment
    /\ lcInputs.residualPayment = Whole(500)
    /\ lcInputs.interestRate = Whole(100)

\* Every value other than the initial 0 was set by an event that marks its
\* field as touched, which is why the gating lets nothing invalid through.
NonZeroImpliesTouched ==
    /\ lcInputs.loanAmount # Zero => lcTouchedFields.loanAmount
    /\ lcInputs.interestRate # Zero => lcTouchedFields.interestRate
    /\ lcInputs.loanTerm # Zero => lcTouchedFields.loanTerm
    /\ lcInputs.residualPayment # Zero => lcTouchedFields.residualPayment

---------------------------------------------------------------------------
(* C25: what LoanCalculator computes from at every render.                  *)

\* C25: in LoanCalculator, at every render in which calculateRepayments is
\* non-null, the render between an input change and the validation effect
\* that follows it included, the inputs it was computed from satisfy
\* loanAmount > 0, interestRate >= 0 and loanTerm > 0, so that totalPeriods
\* is positive and nothing is divided by zero.
C25_EveryRenderFromValidInputs ==
    LoanResultNonNull(lcIsFormValid) =>
      /\ RLt(Zero, lcInputs.loanAmount)
      /\ RLe(Zero, lcInputs.interestRate)
      /\ RLt(Zero, lcInputs.loanTerm)
      /\ RLt(Zero, RMul(lcInputs.loanTerm, Whole(LoanPeriodsPerYear(lcInputs.repaymentFrequency))))

\* The render before the validation effect divides by a zero totalPeriods.
StaleRenderDividesByZero ==
    /\ lcEffectPending
    /\ LoanResultNonNull(lcIsFormValid)
    /\ lcInputs.interestRate = Zero
    /\ lcInputs.loanTerm = Zero
    /\ LoanCalculateRepaymentsOf(lcInputs, lcIsFormValid).repaymentPerPeriod = NotFinite

---------------------------------------------------------------------------
(* C26: MortgageCalculator waits for amount, rate and term to be touched.   *)

\* Loan amount, interest rate and loan term have each been touched.
AllThreeTouched ==
    mcTouchedFields.loanAmount /\ mcTouchedFields.interestRate /\ mcTouchedFields.loanTerm

\* What the validation effect of LoanCalculator hands to setIsFormValid after
\* the events that brought MortgageCalculator here: the handlers of the two
\* components set the same inputs and the same touched flags, and the
\* validation of LoanCalculator does not read the repayment frequency.
LoanCalculatorShowsResult == LoanFormValidOf(mcInputs, mcTouchedFields)

\* Amount and term are positive and the rate field has not been edited.
RateLeftUntouched ==
    /\ ~mcEffectPending
    /\ ~mcTouchedFields.interestRate
    /\ RLt(Zero, mcInputs.loanAmount)
    /\ RLt(Zero, mcInputs.loanTerm)

\* The claim as stated: LoanCalculator shows a result as soon as amount > 0
\* and term > 0, whatever the term and the balloon.
C26_Original ==
    /\ MortgageResultNonNull(mcIsFormValid) => AllThreeTouched
    /\ RateLeftUntouched => LoanCalculatorShowsResult

\* C26: in MortgageCalculator calculateRepayments is null and the schedule
\* empty until loan amount, interest rate and loan term have each been
\* touched, at every render; with the rate untouched, amount > 0 and
\* 0 < term <= 7, and no enabled balloon that the slider has set below 0 or
\* to the loan amount or above, LoanCalculator shows a result where
\* MortgageCalculator shows none.
C26_TouchedBeforeResult ==
    /\ MortgageResultNonNull(mcIsFormValid) => AllThreeTouched
    /\ ~MortgageResultNonNull(mcIsFormValid) =>
          MortgageAmortizationScheduleOf(mcInputs, mcIsFormValid) = << >>
    /\ (/\ RateLeftUntouched
        /\ RLe(mcInputs.loanTerm, Whole(7))
        /\ (mcInputs.hasResidualPayment /\ mcTouchedFields.residualPayment) =>
              /\ RLe(Zero, mcInputs.residualPayment)
              /\ RLt(mcInputs.residualPayment, mcInputs.loanAmount))
         => (LoanCalculatorShowsResult /\ ~MortgageResultNonNull(mcIsFormValid))

\* Amount 1000 and a term of one year entered, the rate never edited:
\* MortgageCalculator shows nothing where LoanCalculator shows a result.
C26_Witness ==
    /\ RateLeftUntouched
    /\ mcInputs.loanAmount = Whole(1000)
    /\ mcInputs.loanTerm = One
    /\ ~MortgageResultNonNull(mcIsFormValid)
    /\ LoanCalculatorShowsResult

\* A 0% mortgage is shown once the rate field has been edited to 0.
ZeroRateMortgageShown ==
    /\ MortgageResultNonNull(mcIsFormValid)
    /\ mcInputs.interestRate = Zero
    /\ mcTouchedFields.interestRate

---------------------------------------------------------------------------
(* C27: the baseTax column of taxBrackets.                                  *)

\* The upper limit of the bracket before bracket i; 0 before the first.
PrecedingUpperLimit(i) == IF i = 1 THEN Zero ELSE taxBrackets[i - 1].max

\* C27: the baseTax of each entry of taxBrackets (0, 0, 4288, 31288, 51638)
\* equals the progressive bracket tax that calculateIncomeTax accumulates,
\* before the offset, for an income at the upper limit of the preceding
\* bracket (0, 18200, 45000, 135000, 190000); so it does for the income
\* entered, whenever that is at such a limit.
C27_BaseTaxIsBracketTax ==
    /\ [i \in 1..Len(taxBrackets) |-> taxBrackets[i].baseTax]
         = <<Whole(0), Whole(0), Whole(4288), Whole(31288), Whole(51638)>>
    /\ [i \in 1..Len(taxBrackets) |-> PrecedingUpperLimit(i)]
         = <<Whole(0), Whole(18200), Whole(45000), Whole(135000), Whole(190000)>>
    /\ \A i \in 1..Len(taxBrackets) :
         taxBrackets[i].baseTax = BracketTax(PrecedingUpperLimit(i))
    /\ \A i \in 1..Len(taxBrackets) :
         (TaxableIncomeNow = PrecedingUpperLimit(i)) =>
            BracketTax(TaxableIncomeNow) = taxBrackets[i].baseTax

\* An accepted income at the upper limit of the third bracket, whose bracket
\* tax is the baseTax of the fourth.
C27_Witness ==
    /\ taxIsFormValid
    /\ ~taxEffectPending
    /\ TaxableIncomeNow = taxBrackets[3].max
    /\ BracketTax(TaxableIncomeNow) = taxBrackets[4].baseTax
    /\ BracketTax(TaxableIncomeNow) = Whole(31288)

---------------------------------------------------------------------------
(* C28: totalTax against the income.                                        *)

\* The annual incomes of the entries that validateInputs accepts.
AcceptedAnnualIncomes ==
    {getAnnualIncome(income, frequency) :
       income \in {i \in TaxIncomes : RLt(Zero, i) /\ RLe(i, Whole(10000000))},
       frequency \in TaxFrequencies}

\* totalTax of calculateTax for an annual income.
TotalTaxOf(income) == CalculateTaxOf([income |-> income, incomeFrequency |-> "annual"], TRUE).totalTax

\* x <= y, compared by whole parts first and by the parts after the point
\* only when those are equal, which keeps the products small.
LeqByParts(x, y) ==
    \/ Floor(x) < Floor(y)
    \/ /\ Floor(x) = Floor(y)
       /\ RLe(Rat(x.num % x.den, x.den), Rat(y.num % y.den, y.den))

\* The form shows the result of an accepted income.
TaxResultSettled == taxIsFormValid /\ ~taxEffectPending

\* C28: totalTax is monotone in the income: for accepted annual incomes
\* a <= b, whole-dollar or not, totalTax(a) <= totalTax(b); and
\* 0 <= totalTax(a) < a, so that netIncome is positive.
C28_TotalTaxMonotone ==
    TaxResultSettled =>
      /\ \A a \in AcceptedAnnualIncomes :
           LeqByParts(a, calculateTax.grossIncome) =>
              LeqByParts(TotalTaxOf(a), calculateTax.totalTax)
      /\ LeqByParts(Zero, calculateTax.totalTax)
      /\ ~LeqByParts(calculateTax.grossIncome, calculateTax.totalTax)
      /\ ~LeqByParts(calculateTax.netIncome, Zero)

\* The income is within [min, max] of a tier of medicareSurchargeThresholds.
InSurchargeTier(income) ==
    \E i \in 1..Len(medicareSurchargeThresholds) :
       /\ RLe(medicareSurchargeThresholds[i].min, income)
       /\ (medicareSurchargeThresholds[i].max = Null
             \/ RLe(income, medicareSurchargeThresholds[i].max))

\* Outside the gaps of the surcharge table totalTax is monotone, and it is
\* below the income everywhere: only an income that falls in no tier of
\* medicareSurchargeThresholds pays less than a smaller one.
MonotoneOutsideSurchargeGaps ==
    TaxResultSettled =>
      /\ InSurchargeTier(calculateTax.grossIncome) =>
           \A a \in AcceptedAnnualIncomes :
              LeqByParts(a, calculateTax.grossIncome) =>
                 LeqByParts(TotalTaxOf(a), calculateTax.totalTax)
      /\ LeqByParts(Zero, calculateTax.totalTax)
      /\ ~LeqByParts(calculateTax.grossIncome, calculateTax.totalTax)
      /\ ~LeqByParts(calculateTax.netIncome, Zero)
===========================================================================
